---------------------------- MODULE Spec2Model ----------------------------
(***************************************************************************)
(* A model of the MQTT -> SQLite sensor logger:                            *)
(*   - Sensor.sanitize_value and its helpers    (src/config/models.py)     *)
(*   - MessageSender.send and its throttle      (src/msg_sender.py)        *)
(*   - DatabaseManager.insert and MQTTLogger    (src/mqtt_logger.py)       *)
(*                                                                         *)
(* Python values are tagged records [t |-> tag, v |-> value]:              *)
(*   none, bool, int, float (v = the number of tenths: 21.3 is 213),       *)
(*   str (v = the sequence of its characters), list (v = the sequence of   *)
(*   its elements).  Floats live on a grid of one decimal; every string    *)
(*   the model feeds to float() has at most one decimal.                   *)
(***************************************************************************)
EXTENDS Integers, Sequences, FiniteSets, TLC

VARIABLES
    \* ---- Sensor.sanitize_value, called on its own -----------------------
    san_spec,       \* the Sensor (field_type, round, invalid_map) of the call
    san_raw,        \* the raw value handed to sanitize_value
    san_out,        \* {} before the call, {returned value} after it
    san_again,      \* {} or {sanitize_value(returned value)}
    \* ---- DatabaseManager.insert, attempt by attempt ---------------------
    ins_resp,       \* what the store answers to attempt 1, 2, ...
    ins_st,         \* [attempt, status, trace] of the running insert
    \* ---- MessageSender --------------------------------------------------
    now,            \* the clock (datetime.now() / time.time()), in ticks
    msg_cfg,        \* MessageSender.config (MessageConfig), fixed after the load
    last_sent,      \* MessageSender.last_sent : trigger_key -> time
    last_call,      \* the last send() call: its arguments and its outcome
    dispatched,     \* history: per key, the call times of the dispatched sends
    n_calls,        \* history: number of send() calls made directly
    \* ---- MQTTLogger -----------------------------------------------------
    engine,         \* "Starting" | "Active" | "Exited" | "Crashed" (an exception left a callback)
    subscribed,     \* on_connect has subscribed to the topic filter
    active_tables,  \* MQTTLogger.active_tables (set of table keys)
    inactive_tables,\* MQTTLogger.inactive_tables (set of table keys)
    last_message_time, \* sensor_id -> time
    rx_stats,       \* sensor_id -> [count_total, first_ts, last_ts, last_info_count, last_info_ts]
    bad_value_events,  \* sensor_id -> int
    exception_counts,  \* sensor_id -> int
    last_info_mail_ts, \* MQTTLogger._last_info_mail_ts
    last_db_size_check_ts, \* MQTTLogger._last_db_size_check_ts
    db_rows,        \* table key -> sequence of inserted rows (the store)
    n_msgs,         \* history: number of messages delivered
    obs,            \* what the last handler did (outcome, sends, insert)
    \* ---- the two threads of a running logger, statement by statement -----
    pc,             \* thread -> the statement it is at ("idle": not in a handler)
    tmp,            \* thread -> the local variables of the handler it is in
    acct            \* history: sensor_id -> bad hits counted and reported

san_vars == <<san_spec, san_raw, san_out, san_again>>
ins_vars == <<ins_resp, ins_st>>
snd_vars == <<now, msg_cfg, last_sent, last_call, dispatched, n_calls>>
eng_vars == <<engine, subscribed, active_tables, inactive_tables, last_message_time,
              rx_stats, bad_value_events, exception_counts, last_info_mail_ts,
              last_db_size_check_ts, db_rows, n_msgs, obs>>
thr_vars == <<pc, tmp, acct>>
vars == <<san_vars, ins_vars, snd_vars, eng_vars, thr_vars>>

-----------------------------------------------------------------------------
(* Python values *)

PyNone == [t |-> "none", v |-> 0]
PyBool(b) == [t |-> "bool", v |-> b]
PyInt(i) == [t |-> "int", v |-> i]
PyFloat(n) == [t |-> "float", v |-> n]
PyStr(s) == [t |-> "str", v |-> s]
PyList(l) == [t |-> "list", v |-> l]

Abs(i) == IF i < 0 THEN -i ELSE i

Digits == <<"0", "1", "2", "3", "4", "5", "6", "7", "8", "9">>
UpperCase == <<"A", "B", "C", "D", "E", "F", "G", "H", "I", "J", "K", "L", "M",
               "N", "O", "P", "Q", "R", "S", "T", "U", "V", "W", "X", "Y", "Z">>
LowerCase == <<"a", "b", "c", "d", "e", "f", "g", "h", "i", "j", "k", "l", "m",
               "n", "o", "p", "q", "r", "s", "t", "u", "v", "w", "x", "y", "z">>

IsDigit(c) == \E i \in 1..Len(Digits) : Digits[i] = c
DigitValue(c) == (CHOOSE i \in 1..Len(Digits) : Digits[i] = c) - 1

\* str.lower(), one character
LowerChar(c) ==
    IF \E i \in 1..Len(UpperCase) : UpperCase[i] = c
    THEN LowerCase[CHOOSE i \in 1..Len(UpperCase) : UpperCase[i] = c]
    ELSE c

StrLower(s) == [i \in 1..Len(s) |-> LowerChar(s[i])]

\* str.strip(): leading and trailing blanks removed
RECURSIVE LStrip(_)
LStrip(s) == IF s # <<>> /\ Head(s) = " " THEN LStrip(Tail(s)) ELSE s

RECURSIVE RStrip(_)
RStrip(s) ==
    IF s # <<>> /\ s[Len(s)] = " " THEN RStrip(SubSeq(s, 1, Len(s) - 1)) ELSE s

Strip(s) == RStrip(LStrip(s))

\* str(int) for a natural number, digit by digit
RECURSIVE NatToStr(_)
NatToStr(n) ==
    IF n < 10 THEN <<Digits[n + 1]>>
    ELSE NatToStr(n \div 10) \o <<Digits[(n % 10) + 1]>>

IntToStr(i) == IF i < 0 THEN <<"-">> \o NatToStr(-i) ELSE NatToStr(i)

\* repr(float) of n tenths: 213 -> "21.3", -99990 -> "-9999.0"
FloatToStr(n) ==
    (IF n < 0 THEN <<"-">> ELSE <<>>)
        \o NatToStr(Abs(n) \div 10) \o <<".">> \o <<Digits[(Abs(n) % 10) + 1]>>

\* the value of a sequence of digits
RECURSIVE DigitsValue(_)
DigitsValue(s) ==
    IF s = <<>> THEN 0
    ELSE 10 * DigitsValue(SubSeq(s, 1, Len(s) - 1)) + DigitValue(s[Len(s)])

AllDigits(s) == \A i \in 1..Len(s) : IsDigit(s[i])

\* float(str): blanks stripped, an optional sign, digits with an optional
\* fraction ("21", "21.3", "21.", ".5").  [ok |-> FALSE] is ValueError.
ParseFloat(s0) ==
    LET s == Strip(s0)
        signed == s # <<>> /\ Head(s) \in {"-", "+"}
        neg == s # <<>> /\ Head(s) = "-"
        body == IF signed THEN Tail(s) ELSE s
        dots == {i \in 1..Len(body) : body[i] = "."}
        dot == IF dots = {} THEN Len(body) + 1 ELSE CHOOSE i \in dots : TRUE
        ip == SubSeq(body, 1, dot - 1)
        fp == SubSeq(body, dot + 1, Len(body))
        wellformed == /\ Cardinality(dots) <= 1
                      /\ AllDigits(ip) /\ AllDigits(fp)
                      /\ Len(ip) + Len(fp) >= 1
                      /\ Len(fp) <= 1
        mag == 10 * DigitsValue(ip) + DigitsValue(fp)
    IN  IF wellformed THEN [ok |-> TRUE, v |-> IF neg THEN -mag ELSE mag]
        ELSE [ok |-> FALSE, v |-> 0]

\* float(x): [ok |-> FALSE] is the TypeError / ValueError that float() raises
ToFloat(x) ==
    CASE x.t = "float" -> [ok |-> TRUE, v |-> x.v]
      [] x.t = "int" -> [ok |-> TRUE, v |-> 10 * x.v]
      [] x.t = "bool" -> [ok |-> TRUE, v |-> IF x.v THEN 10 ELSE 0]
      [] x.t = "str" -> ParseFloat(x.v)
      [] OTHER -> [ok |-> FALSE, v |-> 0]

\* round(val, nd) on the grid of tenths, ties to the even neighbour
RECURSIVE Pow10(_)
Pow10(k) == IF k <= 0 THEN 1 ELSE 10 * Pow10(k - 1)

RoundFloat(n, nd) ==
    IF nd >= 1 THEN n
    ELSE LET unit == Pow10(1 - nd)
             lo == (n \div unit) * unit
             rest == n - lo
         IN  IF 2 * rest < unit THEN lo
             ELSE IF 2 * rest > unit THEN lo + unit
             ELSE IF (lo \div unit) % 2 = 0 THEN lo ELSE lo + unit

\* int(float): truncation towards zero
TruncFloat(n) == IF n < 0 THEN -((-n) \div 10) ELSE n \div 10

\* repr() of a list element and str() of a value
ReprScalar(x) ==
    CASE x.t = "none" -> <<"N", "o", "n", "e">>
      [] x.t = "bool" -> IF x.v THEN <<"T", "r", "u", "e">> ELSE <<"F", "a", "l", "s", "e">>
      [] x.t = "int" -> IntToStr(x.v)
      [] x.t = "float" -> FloatToStr(x.v)
      [] x.t = "str" -> <<"'">> \o x.v \o <<"'">>
      [] OTHER -> <<"[", ".", ".", ".", "]">>

RECURSIVE JoinRepr(_)
JoinRepr(l) ==
    IF l = <<>> THEN <<>>
    ELSE IF Len(l) = 1 THEN ReprScalar(l[1])
    ELSE ReprScalar(l[1]) \o <<",", " ">> \o JoinRepr(Tail(l))

PyStrOf(x) ==
    CASE x.t = "str" -> x.v
      [] x.t = "list" -> <<"[">> \o JoinRepr(x.v) \o <<"]">>
      [] OTHER -> ReprScalar(x)

-----------------------------------------------------------------------------
(* src/config/models.py : the sanitizer *)

\* An optional value is the empty set or a singleton.
Some(x) == {x}
TheOne(S) == CHOOSE x \in S : TRUE

\* _as_str_key: None -> "null", anything else -> str(v).strip()
as_str_key(v) ==
    IF v.t = "none" THEN <<"n", "u", "l", "l">> ELSE Strip(PyStrOf(v))

BoolTrueWords ==
    { <<"t", "r", "u", "e">>, <<"1">>, <<"y", "e", "s">>, <<"y">>, <<"o", "n">>, <<"o", "k">> }
BoolFalseWords ==
    { <<"f", "a", "l", "s", "e">>, <<"0">>, <<"n", "o">>, <<"n">>, <<"o", "f", "f">>, <<"l", "o", "w">> }

\* _parse_bool without its branch for numbers
parse_bool_no_numbers(v) ==
    CASE v.t = "none" -> PyNone
      [] v.t = "bool" -> IF v.v THEN PyInt(1) ELSE PyInt(0)
      [] v.t = "str" ->
            IF StrLower(Strip(v.v)) \in BoolTrueWords THEN PyInt(1)
            ELSE IF StrLower(Strip(v.v)) \in BoolFalseWords THEN PyInt(0)
            ELSE PyNone
      [] OTHER -> PyNone

\* _parse_bool: 0 / 1 / None
parse_bool(v) ==
    CASE v.t = "none" -> PyNone
      [] v.t = "bool" -> IF v.v THEN PyInt(1) ELSE PyInt(0)
      [] v.t = "int" -> IF v.v = 0 THEN PyInt(0) ELSE IF v.v = 1 THEN PyInt(1) ELSE PyNone
      [] v.t = "float" -> IF v.v = 0 THEN PyInt(0) ELSE IF v.v = 10 THEN PyInt(1) ELSE PyNone
      [] v.t = "str" ->
            LET s == StrLower(Strip(v.v))
            IN  IF s \in BoolTrueWords THEN PyInt(1)
                ELSE IF s \in BoolFalseWords THEN PyInt(0)
                ELSE PyNone
      [] OTHER -> PyNone

\* sanitize_value without the invalid_map lookup
MapInvalid_skipped(spec, raw) == raw

\* step 1 of sanitize_value: the invalid_map lookup by string key
MapInvalid(spec, raw) ==
    IF as_str_key(raw) \in DOMAIN spec.invalid_map
    THEN spec.invalid_map[as_str_key(raw)]
    ELSE raw

\* the first element of a non-empty list, anything else as it is
FirstOfList(raw) == IF raw.t = "list" /\ Len(raw.v) > 0 THEN raw.v[1] ELSE raw

\* step 3 of sanitize_value: the conversion by field_type
Convert(spec, raw) ==
    CASE spec.field_type \in {"float", "double", "number"} ->
            LET f == ToFloat(raw)
            IN  IF ~f.ok THEN PyNone
                ELSE IF spec.round # {} THEN PyFloat(RoundFloat(f.v, TheOne(spec.round)))
                ELSE PyFloat(f.v)
      [] spec.field_type \in {"int", "integer"} ->
            LET f == ToFloat(raw)
            IN  IF ~f.ok THEN PyNone ELSE PyInt(TruncFloat(f.v))
      [] spec.field_type \in {"bool", "boolean"} -> parse_bool(raw)
      [] OTHER ->
            LET s == Strip(PyStrOf(raw))
            IN  IF s # <<>> THEN PyStr(s) ELSE PyNone

\* Sensor.sanitize_value(raw): ONE value comes back, ready for the insert
sanitize_value(spec, raw) ==
    LET mapped == MapInvalid(spec, raw)
    IN  IF mapped.t = "none" THEN PyNone
        ELSE Convert(spec, FirstOfList(mapped))

-----------------------------------------------------------------------------
(* The inputs of the sanitizer: field specs and raw values *)

S_null == <<"n", "u", "l", "l">>
S_m9999 == <<"-", "9", "9", "9", "9">>
S_m9999p0 == <<"-", "9", "9", "9", "9", ".", "0">>
S_zero == <<"0">>
S_na == <<"n", "/", "a">>
S_ok == <<"o", "k">>
S_NE == <<"N", "E">>

SanFieldTypes == {"float", "int", "bool", "string"}
SanRounds == {{}, {0}, {1}}
SanInvalidMaps ==
    { <<>>,
      (S_m9999 :> PyNone) @@ (S_m9999p0 :> PyNone),
      (S_zero :> PyNone),
      (S_m9999 :> PyStr(S_na)),
      (S_null :> PyInt(0)) }
SanSpecs ==
    [field_type : SanFieldTypes, round : SanRounds, invalid_map : SanInvalidMaps]

SanRaws ==
    { PyNone, PyBool(TRUE), PyBool(FALSE),
      PyInt(0), PyInt(1), PyInt(21), PyInt(-9999),
      PyFloat(0), PyFloat(4), PyFloat(25), PyFloat(213), PyFloat(-99990),
      PyStr(<<>>), PyStr(S_ok), PyStr(<<"l", "o", "w">>), PyStr(S_NE),
      PyStr(<<" ", "2", "1", ".", "3", " ">>), PyStr(S_m9999), PyStr(S_m9999p0),
      PyStr(<<"a", "b", "c">>),
      PyList(<<>>), PyList(<<PyFloat(213), PyFloat(211)>>),
      PyList(<<PyInt(-9999), PyFloat(38)>>), PyList(<<PyStr(S_ok)>>) }

SanIdle ==
    /\ san_spec = [field_type |-> "string", round |-> {}, invalid_map |-> <<>>]
    /\ san_raw = PyNone
    /\ san_out = {}
    /\ san_again = {}

\* value = sensor.sanitize_value(raw)
SanitizeCall ==
    /\ san_out = {}
    /\ san_out' = Some(sanitize_value(san_spec, san_raw))
    /\ UNCHANGED <<san_spec, san_raw, san_again>>
    /\ UNCHANGED <<ins_vars, snd_vars, eng_vars, thr_vars>>

\* the stored value goes through sanitize_value once more
SanitizeAgain ==
    /\ san_out # {}
    /\ san_again = {}
    /\ san_again' = Some(sanitize_value(san_spec, TheOne(san_out)))
    /\ UNCHANGED <<san_spec, san_raw, san_out>>
    /\ UNCHANGED <<ins_vars, snd_vars, eng_vars, thr_vars>>

-----------------------------------------------------------------------------
(* src/mqtt_logger.py : DatabaseManager.insert *)

\* for _ in range(5)
MaxAttempts == 5

\* What one attempt (connect, execute, commit) meets:
\*   "ok"        the row is committed
\*   "locked"    sqlite3.OperationalError whose text holds "locked"
\*   "op_error"  any other sqlite3.OperationalError
\*   "db_error"  any other sqlite3.Error
StoreAnswers == {"ok", "locked", "op_error", "db_error"}

\* the store's answers to the attempts of one insert, one more than the loop asks for
StoreScripts == [1..(MaxAttempts + 1) -> StoreAnswers]

InsertStart == [attempt |-> 0, status |-> "running", trace |-> <<>>]

\* the retry loop retrying on every error, not only on "locked"
InsertStep_retry_all(st, answer) ==
    IF answer = "ok"
    THEN [attempt |-> st.attempt + 1, status |-> "returned", trace |-> Append(st.trace, answer)]
    ELSE [attempt |-> st.attempt + 1,
          status |-> IF st.attempt + 1 < MaxAttempts THEN "running" ELSE "raised",
          trace |-> Append(st.trace, answer)]

\* one pass through the body of the retry loop; after the last pass the loop
\* is left and DatabaseError("... remained locked") is raised
InsertStep(st, answer) ==
    LET n == st.attempt + 1
        tr == Append(st.trace, answer)
    IN  CASE answer = "ok" ->
                [attempt |-> n, status |-> "returned", trace |-> tr]
          [] answer = "locked" ->
                [attempt |-> n,
                 status |-> IF n < MaxAttempts THEN "running" ELSE "raised",
                 trace |-> tr]
          [] OTHER ->
                [attempt |-> n, status |-> "raised", trace |-> tr]

\* DatabaseManager.insert(record), run to its end against a script of answers
RECURSIVE InsertRun(_, _)
InsertRun(st, script) ==
    IF st.status # "running" THEN st
    ELSE InsertRun(InsertStep(st, script[st.attempt + 1]), script)

insert(script) == InsertRun(InsertStart, script)

InsIdle ==
    /\ ins_resp = <<>>
    /\ ins_st = [attempt |-> 0, status |-> "idle", trace |-> <<>>]

\* one attempt of a running insert
InsertAttempt ==
    /\ ins_st.status = "running"
    /\ ins_st' = InsertStep(ins_st, ins_resp[ins_st.attempt + 1])
    /\ UNCHANGED ins_resp
    /\ UNCHANGED <<san_vars, snd_vars, eng_vars, thr_vars>>

-----------------------------------------------------------------------------
(* src/msg_sender.py : MessageSender *)

\* the clock counts ticks; an hour has TicksPerHour of them
TicksPerHour == 2
MaxTime == 4
\* the ticks that may pass while the channels of one send() emit
MaxEmitDelay == 1
\* the largest MAX_REPEAT_HOURS a configuration of the model sets
MaxRepeatHours == 1
\* the longest message body, in characters
MaxBody == 3
\* the number of send() calls made directly on a MessageSender
MaxCalls == 3

Channels == {"stdout", "logfile", "ntfy", "mail"}

Min(a, b) == IF a < b THEN a ELSE b

\* MessageConfig as the sender and the logger read it.  "triggers" gives the
\* EnabledChannels of every MSG_TRIGGER block as the set of its true flags.
MsgConfig(hours, logfile_on, ntfy_on, mail_on, trig) ==
    [max_repeat_hours |-> hours,
     logfile_enabled |-> logfile_on,
     ntfy_enabled |-> ntfy_on,
     mail_enabled |-> mail_on,
     stdout_preview |-> 2,
     logfile_preview |-> 2,
     ntfy_preview |-> 1,
     mail_preview |-> 2,
     triggers |-> trig]

\* timedelta(hours=self.config.max_repeat_hours), in ticks
max_repeat(cfg) == cfg.max_repeat_hours * TicksPerHour

\* _should_send letting a message through one tick early
should_send_early(ls, cfg, t, trigger_key) ==
    IF trigger_key \notin DOMAIN ls THEN TRUE
    ELSE t - ls[trigger_key] >= max_repeat(cfg) - 1

\* MessageSender._should_send, with datetime.now() = t
should_send(ls, cfg, t, trigger_key) ==
    IF trigger_key \notin DOMAIN ls THEN TRUE
    ELSE t - ls[trigger_key] >= max_repeat(cfg)

\* payload[:n]
Truncate(len, n) == Min(len, n)

\* The channels of one dispatched send() and the body length each one emits.
\* _send_stdout prints the payload whole; _send_logfile needs self.logger
\* (there is one iff LOGFILE.ENABLED) and cuts payload_full; _send_ntfy ends in
\* the NameError of the missing requests module (its import is commented out),
\* which it catches, so nothing is pushed; _send_mail prepares the message
\* from the cut payload_full.
Emissions(cfg, enabled_channels, payload, payload_full) ==
    (IF "stdout" \in enabled_channels
        THEN {[channel |-> "stdout", len |-> payload]} ELSE {})
    \cup
    (IF "logfile" \in enabled_channels /\ cfg.logfile_enabled
        THEN {[channel |-> "logfile", len |-> Truncate(payload_full, cfg.logfile_preview)]}
        ELSE {})
    \cup
    (IF "mail" \in enabled_channels /\ cfg.mail_enabled
        THEN {[channel |-> "mail", len |-> Truncate(payload_full, cfg.mail_preview)]}
        ELSE {})

\* send recording the time of a suppressed call too
send_recording_all(ls, cfg, t, trigger_key, trigger_title, enabled_channels, payload, payload_full, dt) ==
    IF ~should_send(ls, cfg, t, trigger_key)
    THEN [sent |-> FALSE, last_sent |-> (trigger_key :> t) @@ ls, now |-> t, emits |-> {}]
    ELSE [sent |-> TRUE,
          last_sent |-> (trigger_key :> (t + dt)) @@ ls,
          now |-> t + dt,
          emits |-> Emissions(cfg, enabled_channels, payload,
                              IF payload_full = {} THEN payload ELSE TheOne(payload_full))]

\* MessageSender.send(trigger_key, trigger_title, enabled_channels, payload,
\* payload_full) called at time t on the throttle map ls; payload_full is {}
\* for None; dt ticks pass while the channels emit.  The result holds what
\* send returns, the throttle map and the clock after it, and what was emitted.
send(ls, cfg, t, trigger_key, trigger_title, enabled_channels, payload, payload_full, dt) ==
    IF ~should_send(ls, cfg, t, trigger_key)
    THEN [sent |-> FALSE, last_sent |-> ls, now |-> t, emits |-> {}]
    ELSE LET full == IF payload_full = {} THEN payload ELSE TheOne(payload_full)
         IN  [sent |-> TRUE,
              last_sent |-> (trigger_key :> (t + dt)) @@ ls,
              now |-> t + dt,
              emits |-> Emissions(cfg, enabled_channels, payload, full)]

NoCall ==
    [key |-> "", title |-> "", channels |-> {}, payload |-> 0, payload_full |-> {},
     at |-> 0, sent |-> FALSE, emits |-> {}]

\* the sender after MessageSender.__init__; the clock is past its epoch
SndInit(cfgs) ==
    /\ now = 1
    /\ msg_cfg \in cfgs
    /\ last_sent = <<>>
    /\ last_call = NoCall
    /\ dispatched = <<>>
    /\ n_calls = 0

AllTriggers(chs) ==
    [tr \in {"info", "missing_data", "db_size", "bad_values", "non_dict_payload",
             "missing_timestamp", "json_decode_error", "unknown_sensor_error"} |-> chs]

\* the configurations of a MessageSender used on its own
SendConfigs ==
    { MsgConfig(h, lf, FALSE, ml, AllTriggers({"stdout"})) :
        h \in 0..MaxRepeatHours, lf \in BOOLEAN, ml \in BOOLEAN }

SendKeys == {"TEST_MESSAGE", "BAD_VALUES"}
SendTitles == {"Test: Demo Message", "Test: Duplicate Message"}
SendChannelSets == {{}, {"stdout"}, Channels}
SendPayloads == {1, MaxBody}

\* time passes
Tick ==
    /\ now < MaxTime
    /\ now' = now + 1
    /\ UNCHANGED <<msg_cfg, last_sent, last_call, dispatched, n_calls>>
    /\ UNCHANGED <<san_vars, ins_vars, eng_vars, thr_vars>>

\* sender.send(...) called directly, as the demo of msg_sender.py does
SendCall ==
    /\ n_calls < MaxCalls
    /\ \E k \in SendKeys, title \in SendTitles, chs \in SendChannelSets,
          p \in SendPayloads, pf \in {{}, {MaxBody}}, dt \in 0..MaxEmitDelay :
          LET r == send(last_sent, msg_cfg, now, k, title, chs, p, pf, dt)
          IN  /\ now + dt <= MaxTime
              /\ last_sent' = r.last_sent
              /\ now' = r.now
              /\ last_call' = [key |-> k, title |-> title, channels |-> chs,
                               payload |-> p, payload_full |-> pf, at |-> now,
                               sent |-> r.sent, emits |-> r.emits]
              /\ dispatched' =
                    IF r.sent
                    THEN (k :> Append(IF k \in DOMAIN dispatched THEN dispatched[k] ELSE <<>>, now))
                            @@ dispatched
                    ELSE dispatched
    /\ n_calls' = n_calls + 1
    /\ UNCHANGED msg_cfg
    /\ UNCHANGED <<san_vars, ins_vars, eng_vars, thr_vars>>

-----------------------------------------------------------------------------
(* src/mqtt_logger.py : the configuration and the store of the model *)

FloatTemp ==
    [field_type |-> "float", round |-> {1},
     invalid_map |-> (S_m9999 :> PyNone) @@ (S_m9999p0 :> PyNone)]
BoolField == [field_type |-> "bool", round |-> {}, invalid_map |-> <<>>]
StringField == [field_type |-> "string", round |-> {}, invalid_map |-> <<>>]

\* SystemConfig.tables in the order of the configuration file:
\* a temperature table, a wind table with one text column, a rain table
TableKeys == <<"measurements_th", "measurements_w", "measurements_r">>

Tables ==
    [tk \in {TableKeys[i] : i \in 1..Len(TableKeys)} |->
        CASE tk = "measurements_th" ->
                [key |-> tk, name |-> tk, sensor_id |-> "11566802925f",
                 timestamp |-> "utms",
                 sensor_keys |-> <<"temperature1", "battery">>,
                 sensors |-> ("temperature1" :> FloatTemp) @@ ("battery" :> BoolField)]
          [] tk = "measurements_w" ->
                [key |-> tk, name |-> tk, sensor_id |-> "0b55aada036f",
                 timestamp |-> "utms",
                 sensor_keys |-> <<"direction">>,
                 sensors |-> ("direction" :> StringField)]
          [] OTHER ->
                [key |-> tk, name |-> tk, sensor_id |-> "0c66bbdb147a",
                 timestamp |-> "utms",
                 sensor_keys |-> <<"rain">>,
                 sensors |-> ("rain" :> FloatTemp)]]

AllTableKeys == DOMAIN Tables

Range(f) == {f[x] : x \in DOMAIN f}

\* [tcfg.timestamp.name] + list(tcfg.sensors.keys())
FieldsInOrder(tcfg) == <<tcfg.timestamp>> \o tcfg.sensor_keys

\* the columns a table needs
ExpectedColumns(tcfg) == {tcfg.timestamp} \cup Range(tcfg.sensor_keys)

\* A store schema: table name -> the set of its columns (no columns at all
\* for a table the store does not hold, as PRAGMA table_info answers).
FullSchema == [tk \in AllTableKeys |-> ExpectedColumns(Tables[tk])]

EngineSchemas ==
    { FullSchema,
      [FullSchema EXCEPT !["measurements_r"] = {}],
      [FullSchema EXCEPT !["measurements_r"] = {"utms"}, !["measurements_w"] = {"direction"}],
      [tk \in AllTableKeys |-> {}] }

\* check_schema: missing = sorted(expected - actual), the text of the problem
MissingColumns(schema, tcfg) == ExpectedColumns(tcfg) \ schema[tcfg.name]

\* a schema check that only looks whether the table is there
check_schema_absent_only(schema) ==
    {tk \in AllTableKeys : schema[Tables[tk].name] = {}}

\* check_schema: table_key -> problem, here the set of the keys with a problem
check_schema(schema) ==
    {tk \in AllTableKeys : MissingColumns(schema, Tables[tk]) # {}}

\* a start() that keeps every configured table active
ActiveOf_all(problems) == AllTableKeys

\* start(): the tables without a problem become active_tables, ...
ActiveOf(problems) == {tk \in AllTableKeys : tk \notin problems}

\* ... and the tables with a problem become inactive_tables
InactiveOf(problems) == {tk \in AllTableKeys : tk \in problems}

\* SystemConfig.get_table_by_sensor_id: the first table of the configuration
\* with that sensor id, as {} or {table key}
get_table_by_sensor_id(sensor_id) ==
    LET hits == {i \in 1..Len(TableKeys) : Tables[TableKeys[i]].sensor_id = sensor_id}
    IN  IF hits = {} THEN {}
        ELSE {TableKeys[CHOOSE i \in hits : \A j \in hits : i <= j]}

\* MQTTLogger._sensor_id_from_topic; the topic is given as topic.split("/")
sensor_id_from_topic(parts) ==
    IF Len(parts) >= 3 /\ parts[1] = "mobilealerts" THEN {parts[2]} ELSE {}

\* a lookup that forgets to ask whether the table is active
get_table_for_sensor_any(active, sensor_id) == get_table_by_sensor_id(sensor_id)

\* MQTTLogger._get_table_for_sensor: {} or {key of the active table}
get_table_for_sensor(active, sensor_id) ==
    IF get_table_by_sensor_id(sensor_id) = {} THEN {}
    ELSE LET hits == {i \in 1..Len(TableKeys) :
                        /\ TableKeys[i] \in active
                        /\ Tables[TableKeys[i]].sensor_id = sensor_id}
         IN  IF hits = {} THEN {}
             ELSE {TableKeys[CHOOSE i \in hits : \A j \in hits : i <= j]}

\* bool(v) of a Python value
Truthy(v) ==
    CASE v.t = "none" -> FALSE
      [] v.t = "bool" -> v.v
      [] v.t \in {"int", "float"} -> v.v # 0
      [] OTHER -> Len(v.v) > 0

\* "value, is_good = x": a string or a list of exactly two items unpacks into
\* them; any other string or list raises ValueError, any other value TypeError
Unpack2(x) ==
    CASE x.t = "str" /\ Len(x.v) = 2 ->
            [exc |-> "", first |-> PyStr(<<x.v[1]>>), second |-> PyStr(<<x.v[2]>>)]
      [] x.t = "list" /\ Len(x.v) = 2 ->
            [exc |-> "", first |-> x.v[1], second |-> x.v[2]]
      [] x.t \in {"str", "list"} ->
            [exc |-> "ValueError", first |-> PyNone, second |-> PyNone]
      [] OTHER ->
            [exc |-> "TypeError", first |-> PyNone, second |-> PyNone]

-----------------------------------------------------------------------------
(* src/mqtt_logger.py : MQTTLogger *)

\* the number of messages the transport delivers in a run of the model
MaxMsgs == 2

\* the classes of src/exceptions.py that the model raises
MQTTLoggerErrors == {"DatabaseError", "ConfigError", "InternalLoggerError"}

\* on_message with "except MQTTLoggerError" as its only except clause
caught_as_own_only(exc) ==
    IF exc \in MQTTLoggerErrors THEN {exc} ELSE {}

\* The except clauses of on_message: an MQTTLoggerError is handed to
\* _handle_exception as it is, any other Exception as InternalLoggerError.
\* {} would be an exception that no clause catches.
caught_as(exc) ==
    IF exc \in MQTTLoggerErrors THEN {exc} ELSE {"InternalLoggerError"}

\* trigger_key = f"EXCEPTION_{type(exc).__name__}"
exception_key(sensor_id, exc) == "EXCEPTION_" \o exc

Get(f, k, default) == IF k \in DOMAIN f THEN f[k] ELSE default

\* one entry of a handler's list of sends
SendEntry(key, r) == [key |-> key, sent |-> r.sent, emits |-> r.emits]

\* _handle_exception of a logger that has no MessageSender: it counts nothing
\* and sends nothing
handle_exception_mute(ls, cfg, t, counts, sensor_id, exc) ==
    [last_sent |-> ls,
     counts |-> counts,
     entry |-> [key |-> exception_key(sensor_id, exc), sent |-> FALSE, emits |-> {}]]

\* MQTTLogger._handle_exception(sensor_id, topic, payload_str, exc) at time t
handle_exception(ls, cfg, t, counts, sensor_id, exc) ==
    LET counted == (sensor_id :> (Get(counts, sensor_id, 0) + 1)) @@ counts
        key == exception_key(sensor_id, exc)
        r == send(ls, cfg, t, key, "[ERROR] " \o exc \o " (" \o sensor_id \o ")",
                  cfg.triggers["info"], MaxBody, {MaxBody}, 0)
    IN  [last_sent |-> r.last_sent,
         counts |-> IF r.sent THEN (sensor_id :> 0) @@ counted ELSE counted,
         entry |-> SendEntry(key, r)]

\* payload.get(key)
PayloadGet(fields, key) == Get(fields, key, PyNone)

\* The loop of on_message over table.sensors: every field is sanitized and the
\* result is unpacked into (value, is_good).  Ends with the record and the
\* number of bad hits, or with the exception of the first field that raises.
RECURSIVE SanitizeFields(_, _, _, _)
SanitizeFields(tcfg, fields, i, acc) ==
    IF i > Len(tcfg.sensor_keys) THEN acc
    ELSE LET skey == tcfg.sensor_keys[i]
             u == Unpack2(sanitize_value(tcfg.sensors[skey], PayloadGet(fields, skey)))
         IN  IF u.exc # "" THEN [acc EXCEPT !.exc = u.exc]
             ELSE SanitizeFields(tcfg, fields, i + 1,
                    [record |-> (skey :> u.first) @@ acc.record,
                     bad_hit |-> IF Truthy(u.second) THEN acc.bad_hit ELSE acc.bad_hit + 1,
                     exc |-> ""])

\* values = [record.get(c) for c in self.fields]
RowOf(tcfg, record) ==
    [c \in Range(FieldsInOrder(tcfg)) |-> Get(record, c, PyNone)]

NoMsg == [topic |-> <<>>, kind |-> "", fields |-> <<>>]
NoInsert == [attempt |-> 0, status |-> "none", trace |-> <<>>]

Obs(op, msg, outcome, exc, escaped, sends, ins) ==
    [op |-> op, msg |-> msg, outcome |-> outcome, exc |-> exc,
     escaped |-> escaped, sends |-> sends, ins |-> ins]

\* the logger after MQTTLogger.__init__
EngInit ==
    /\ engine = "Starting"
    /\ subscribed = FALSE
    /\ active_tables = {}
    /\ inactive_tables = {}
    /\ last_message_time = <<>>
    /\ rx_stats = <<>>
    /\ bad_value_events = <<>>
    /\ exception_counts = <<>>
    /\ last_info_mail_ts = 0
    /\ last_db_size_check_ts = 0
    /\ pc = [callback |-> "idle", sweep |-> "idle"]
    /\ tmp = [callback |-> <<>>, sweep |-> <<>>]
    /\ acct = <<>>
    /\ db_rows = [tk \in AllTableKeys |-> <<>>]
    /\ n_msgs = 0
    /\ obs = Obs("init", NoMsg, "", "", FALSE, <<>>, NoInsert)


\* an info mail that moves the reference point whether or not it went out
maybe_send_info_mail_always(ls, cfg, t, info_ts, stats, active) ==
    [last_sent |-> ls, info_ts |-> t,
     stats |-> [sid \in DOMAIN stats |->
                    [stats[sid] EXCEPT !.last_info_count = stats[sid].count_total,
                                       !.last_info_ts = t]],
     sends |-> <<>>]

\* MQTTLogger.maybe_send_info_mail at time t: the periodic info message and,
\* if it was sent, the new reference point of every active sensor's statistics
maybe_send_info_mail(ls, cfg, t, info_ts, stats, active) ==
    IF info_ts # 0 /\ (t - info_ts) < max_repeat(cfg)
    THEN [last_sent |-> ls, info_ts |-> info_ts, stats |-> stats, sends |-> <<>>]
    ELSE LET r == send(ls, cfg, t, "INFO_PERIODIC", "[INFO] MQTT Logger gestartet",
                       cfg.triggers["info"], MaxBody, {MaxBody}, 0)
             sids == {Tables[tk].sensor_id : tk \in active} \cap DOMAIN stats
         IN  [last_sent |-> r.last_sent,
              info_ts |-> IF r.sent THEN t ELSE info_ts,
              stats |-> IF r.sent
                        THEN [sid \in DOMAIN stats |->
                                IF sid \in sids
                                THEN [stats[sid] EXCEPT !.last_info_count = stats[sid].count_total,
                                                        !.last_info_ts = t]
                                ELSE stats[sid]]
                        ELSE stats,
              sends |-> <<SendEntry("INFO_PERIODIC", r)>>]

\* the SCHEMA_MISMATCH_<table> messages of start(), one per inactive table
RECURSIVE SendSchemaWarnings(_, _, _, _, _)
SendSchemaWarnings(acc, cfg, t, inactive, i) ==
    IF i > Len(TableKeys) THEN acc
    ELSE IF TableKeys[i] \notin inactive
    THEN SendSchemaWarnings(acc, cfg, t, inactive, i + 1)
    ELSE LET key == "SCHEMA_MISMATCH_" \o TableKeys[i]
             r == send(acc.last_sent, cfg, t, key, "[WARN] DB Schema mismatch",
                       cfg.triggers["info"], MaxBody, {MaxBody}, 0)
         IN  SendSchemaWarnings(
                [last_sent |-> r.last_sent, sends |-> Append(acc.sends, SendEntry(key, r))],
                cfg, t, inactive, i + 1)

\* MQTTLogger.start() up to its sweep loop.  readable: the store answers
\* the PRAGMA of the schema check; connect_ok: client.connect() succeeds.
Start(schema, readable, connect_ok) ==
    /\ engine = "Starting"
    /\ IF ~readable
       THEN \* check_schema raised: mail through the exception handler, exit(1)
            LET h == handle_exception(last_sent, msg_cfg, now, exception_counts,
                                      "global", "DatabaseError")
            IN  /\ engine' = "Exited"
                /\ last_sent' = h.last_sent
                /\ exception_counts' = h.counts
                /\ obs' = Obs("start", NoMsg, "schema_unreadable", "DatabaseError",
                              FALSE, <<h.entry>>, NoInsert)
                /\ UNCHANGED <<active_tables, inactive_tables, last_info_mail_ts, rx_stats>>
       ELSE LET problems == check_schema(schema)
                inactive == InactiveOf(problems)
                active == ActiveOf(problems)
                w == SendSchemaWarnings([last_sent |-> last_sent, sends |-> <<>>],
                                        msg_cfg, now, inactive, 1)
            IN  /\ active_tables' = active
                /\ inactive_tables' = inactive
                /\ IF active = {}
                   THEN \* no active table: exit(2)
                        /\ engine' = "Exited"
                        /\ last_sent' = w.last_sent
                        /\ obs' = Obs("start", NoMsg, "no_active_tables", "", FALSE,
                                      w.sends, NoInsert)
                        /\ UNCHANGED <<exception_counts, last_info_mail_ts, rx_stats>>
                   ELSE LET r1 == send(w.last_sent, msg_cfg, now, "LOGGER_STARTUP",
                                       "[INFO] MQTT Logger startup",
                                       msg_cfg.triggers["info"], MaxBody, {}, 0)
                            s1 == Append(w.sends, SendEntry("LOGGER_STARTUP", r1))
                        IN  IF ~connect_ok
                            THEN \* client.connect raised: exit(1)
                                 LET h == handle_exception(r1.last_sent, msg_cfg, now,
                                            exception_counts, "global", "InternalLoggerError")
                                 IN  /\ engine' = "Exited"
                                     /\ last_sent' = h.last_sent
                                     /\ exception_counts' = h.counts
                                     /\ obs' = Obs("start", NoMsg, "connect_failed",
                                                   "InternalLoggerError", FALSE,
                                                   Append(s1, h.entry), NoInsert)
                                     /\ UNCHANGED <<last_info_mail_ts, rx_stats>>
                            ELSE LET m == maybe_send_info_mail(r1.last_sent, msg_cfg, now,
                                            last_info_mail_ts, rx_stats, active)
                                     r2 == send(m.last_sent, msg_cfg, now, "LOGGER_RUNNING",
                                                "[INFO] MQTT Logger running",
                                                msg_cfg.triggers["info"], MaxBody, {}, 0)
                                 IN  /\ engine' = "Active"
                                     /\ last_sent' = r2.last_sent
                                     /\ last_info_mail_ts' = m.info_ts
                                     /\ rx_stats' = m.stats
                                     /\ obs' = Obs("start", NoMsg, "running", "", FALSE,
                                                   (s1 \o m.sends) \o <<SendEntry("LOGGER_RUNNING", r2)>>,
                                                   NoInsert)
                                     /\ UNCHANGED exception_counts
    /\ UNCHANGED <<subscribed, last_message_time, bad_value_events, db_rows, n_msgs,
                   last_db_size_check_ts>>
    /\ UNCHANGED <<now, msg_cfg, last_call, dispatched, n_calls>>
    /\ UNCHANGED <<san_vars, ins_vars, thr_vars>>

\* an on_connect that the transport could call on a logger that never started
on_connect_unguarded ==
    /\ LET r == send(last_sent, msg_cfg, now, "MQTT_CONNECTED",
                     "[INFO] MQTT Broker connected", msg_cfg.triggers["info"], MaxBody, {}, 0)
       IN  /\ last_sent' = r.last_sent
           /\ obs' = Obs("on_connect", NoMsg, "subscribed", "", FALSE,
                         <<SendEntry("MQTT_CONNECTED", r)>>, NoInsert)
    /\ subscribed' = TRUE
    /\ UNCHANGED <<engine, active_tables, inactive_tables, last_message_time, rx_stats,
                   bad_value_events, exception_counts, last_info_mail_ts,
                   last_db_size_check_ts, db_rows, n_msgs>>
    /\ UNCHANGED <<now, msg_cfg, last_call, dispatched, n_calls>>
    /\ UNCHANGED <<san_vars, ins_vars, thr_vars>>

\* MQTTLogger.on_connect: subscribe and report the connection
on_connect ==
    /\ engine = "Active"
    /\ LET r == send(last_sent, msg_cfg, now, "MQTT_CONNECTED",
                     "[INFO] MQTT Broker connected", msg_cfg.triggers["info"], MaxBody, {}, 0)
       IN  /\ last_sent' = r.last_sent
           /\ obs' = Obs("on_connect", NoMsg, "subscribed", "", FALSE,
                         <<SendEntry("MQTT_CONNECTED", r)>>, NoInsert)
    /\ subscribed' = TRUE
    /\ UNCHANGED <<engine, active_tables, inactive_tables, last_message_time, rx_stats,
                   bad_value_events, exception_counts, last_info_mail_ts,
                   last_db_size_check_ts, db_rows, n_msgs>>
    /\ UNCHANGED <<now, msg_cfg, last_call, dispatched, n_calls>>
    /\ UNCHANGED <<san_vars, ins_vars, thr_vars>>


\* the messages the transport delivers: topic.split("/") and the payload as
\* json.loads sees it ("invalid": not JSON, "list": JSON but no object)
S_ts == <<"2", "0", "2", "5">>
TopicTH == <<"mobilealerts", "11566802925f", "json">>
TopicW == <<"mobilealerts", "0b55aada036f", "json">>
TopicR == <<"mobilealerts", "0c66bbdb147a", "json">>
TopicUnknown == <<"mobilealerts", "0b55aada9999", "json">>
TopicPrefix == <<"mobilefault", "0b55aada036f", "json">>
TopicShort == <<"mobilealerts">>
Topics == {TopicTH, TopicW, TopicR, TopicUnknown, TopicPrefix, TopicShort}

PayloadFieldsSeq ==
    << ("utms" :> PyStr(S_ts)) @@ ("temperature1" :> PyList(<<PyFloat(213), PyFloat(211)>>))
            @@ ("battery" :> PyStr(S_ok)),
      ("utms" :> PyStr(S_ts)) @@ ("temperature1" :> PyInt(-9999)) @@ ("battery" :> PyStr(S_ok)),
      ("utms" :> PyStr(S_ts)) @@ ("temperature1" :> PyList(<<PyInt(-9999), PyFloat(38)>>)),
      ("temperature1" :> PyFloat(213)),
      ("utms" :> PyStr(<<>>)) @@ ("direction" :> PyStr(S_NE)),
      ("utms" :> PyStr(S_ts)) @@ ("direction" :> PyStr(S_NE)),
      ("utms" :> PyStr(S_ts)) @@ ("direction" :> PyStr(<<"N">>)),
      ("utms" :> PyStr(S_ts)) >>

Msg(tp, k, f) == [topic |-> tp, kind |-> k, fields |-> f]

Messages ==
    { Msg(TopicTH, "dict", PayloadFieldsSeq[i]) : i \in 1..4 }
    \cup { Msg(TopicW, "dict", PayloadFieldsSeq[i]) : i \in 5..7 }
    \cup { Msg(tp, "dict", PayloadFieldsSeq[8]) : tp \in {TopicR, TopicUnknown, TopicShort} }
    \cup { Msg(TopicPrefix, "dict", PayloadFieldsSeq[6]),
           Msg(TopicTH, "invalid", <<>>), Msg(TopicW, "list", <<>>) }

\* the answers of the store that the logger's inserts meet
Script(lead, final) ==
    [i \in 1..(MaxAttempts + 1) |-> IF i <= lead THEN "locked" ELSE final]
EngineScripts ==
    { Script(0, "ok"), Script(2, "ok"), Script(MaxAttempts, "ok"),
      Script(0, "op_error"), Script(1, "db_error") }

\* what on_message has made of a message when it returns
Outcome(outcome, sid, tk, exc, f, ins) ==
    [outcome |-> outcome, sid |-> sid, tk |-> tk, exc |-> exc,
     record |-> f.record, bad_hit |-> f.bad_hit, ins |-> ins]

NoFields == [record |-> <<>>, bad_hit |-> 0, exc |-> ""]

\* on_message: self.db.insert(table.tablename, record) and what follows it
AfterInsert(sid, tk, f, ins) ==
    IF ins.status = "raised"
    THEN Outcome("exception", sid, tk, "DatabaseError", NoFields, ins)
    ELSE Outcome("inserted", sid, tk, "", f, ins)

\* on_message: after the loop over the fields of the table
AfterSanitize(sid, tk, f, script) ==
    IF f.exc # ""
    THEN Outcome("exception", sid, tk, f.exc, NoFields, NoInsert)
    ELSE AfterInsert(sid, tk, f, insert(script))

\* on_message: the timestamp of the payload, then the fields
AfterTimestamp(sid, tk, tcfg, fields, utms, script) ==
    IF ~Truthy(utms)
    THEN Outcome("missing_timestamp", sid, tk, "", NoFields, NoInsert)
    ELSE AfterSanitize(sid, tk,
            SanitizeFields(tcfg, fields, 1,
                [record |-> (tcfg.timestamp :> utms), bad_hit |-> 0, exc |-> ""]),
            script)

\* on_message: the table of the sensor, then json.loads and the dict test
AfterTopic(sid, tk_opt, msg, script) ==
    IF sid = "" \/ tk_opt = {}
    THEN Outcome("unknown_sensor_error", sid, tk_opt, "", NoFields, NoInsert)
    ELSE IF msg.kind = "invalid"
    THEN Outcome("json_decode_error", sid, tk_opt, "", NoFields, NoInsert)
    ELSE IF msg.kind # "dict"
    THEN Outcome("non_dict_payload", sid, tk_opt, "", NoFields, NoInsert)
    ELSE AfterTimestamp(sid, tk_opt, Tables[TheOne(tk_opt)], msg.fields,
            PayloadGet(msg.fields, Tables[TheOne(tk_opt)].timestamp), script)

SidOf(sid_opt) == IF sid_opt = {} THEN "" ELSE TheOne(sid_opt)

TableOf(active, sid) == IF sid = "" THEN {} ELSE get_table_for_sensor(active, sid)

\* on_message up to the insert: what the message is taken for
Classify(active, msg, script) ==
    AfterTopic(SidOf(sensor_id_from_topic(msg.topic)),
               TableOf(active, SidOf(sensor_id_from_topic(msg.topic))), msg, script)

\* a logger that reports every dropped message as a missing timestamp
TriggerKeyOf_one(outcome) == "MISSING_TIMESTAMP"

TriggerKeyOf(outcome) ==
    CASE outcome = "unknown_sensor_error" -> "UNKNOWN_SENSOR_ERROR"
      [] outcome = "json_decode_error" -> "JSON_DECODE_ERROR"
      [] outcome = "non_dict_payload" -> "NON_DICT_PAYLOAD"
      [] OTHER -> "MISSING_TIMESTAMP"

\* a state update that counts only the first message of a sensor
Stored_uncounted(c, msg, tk) ==
    /\ db_rows' = [db_rows EXCEPT ![tk] = Append(@, RowOf(Tables[tk], c.record))]
    /\ last_message_time' = (c.sid :> now) @@ last_message_time
    /\ rx_stats' =
          IF c.sid \notin DOMAIN rx_stats
          THEN (c.sid :> [count_total |-> 1, first_ts |-> now, last_ts |-> now,
                          last_info_count |-> 0, last_info_ts |-> 0]) @@ rx_stats
          ELSE [rx_stats EXCEPT ![c.sid].last_ts = now]
    /\ bad_value_events' =
          IF c.bad_hit > 0
          THEN (c.sid :> (Get(bad_value_events, c.sid, 0) + c.bad_hit)) @@ bad_value_events
          ELSE bad_value_events
    /\ obs' = Obs("on_message", msg, c.outcome, "", FALSE, <<>>, c.ins)
    /\ UNCHANGED <<engine, last_sent, exception_counts>>

\* on_message: the state update after a committed insert
Stored(c, msg, tk) ==
    /\ db_rows' = [db_rows EXCEPT ![tk] = Append(@, RowOf(Tables[tk], c.record))]
    /\ last_message_time' = (c.sid :> now) @@ last_message_time
    /\ rx_stats' =
          IF c.sid \notin DOMAIN rx_stats
          THEN (c.sid :> [count_total |-> 1, first_ts |-> now, last_ts |-> now,
                          last_info_count |-> 0, last_info_ts |-> 0]) @@ rx_stats
          ELSE [rx_stats EXCEPT ![c.sid].count_total = @ + 1,
                                ![c.sid].last_ts = now]
    /\ bad_value_events' =
          IF c.bad_hit > 0
          THEN (c.sid :> (Get(bad_value_events, c.sid, 0) + c.bad_hit)) @@ bad_value_events
          ELSE bad_value_events
    /\ obs' = Obs("on_message", msg, c.outcome, "", FALSE, <<>>, c.ins)
    /\ UNCHANGED <<engine, last_sent, exception_counts>>

\* on_message: _handle_exception has run on the caught exception
Handled(c, msg, h) ==
    /\ last_sent' = h.last_sent
    /\ exception_counts' = h.counts
    /\ obs' = Obs("on_message", msg, c.outcome, c.exc, FALSE, <<h.entry>>, c.ins)
    /\ UNCHANGED <<engine, db_rows, last_message_time, rx_stats, bad_value_events>>

\* on_message: the except clauses; caught = {} is an exception that no clause
\* catches and that leaves on_message
Raised(c, msg, caught) ==
    IF caught = {}
    THEN /\ engine' = "Crashed"
         /\ obs' = Obs("on_message", msg, c.outcome, c.exc, TRUE, <<>>, c.ins)
         /\ UNCHANGED <<last_sent, exception_counts, db_rows,
                        last_message_time, rx_stats, bad_value_events>>
    ELSE Handled(c, msg,
            handle_exception(last_sent, msg_cfg, now, exception_counts, c.sid, TheOne(caught)))

\* on_message: a message dropped with one of the four warnings
Dropped(c, msg, key, r) ==
    /\ last_sent' = r.last_sent
    /\ obs' = Obs("on_message", msg, c.outcome, "", FALSE, <<SendEntry(key, r)>>, NoInsert)
    /\ UNCHANGED <<engine, exception_counts, db_rows, last_message_time,
                   rx_stats, bad_value_events>>

Deliver(c, msg) ==
    CASE c.outcome = "inserted" -> Stored(c, msg, TheOne(c.tk))
      [] c.outcome = "exception" -> Raised(c, msg, caught_as(c.exc))
      [] OTHER -> Dropped(c, msg, TriggerKeyOf(c.outcome),
                          send(last_sent, msg_cfg, now, TriggerKeyOf(c.outcome), c.outcome,
                               msg_cfg.triggers[c.outcome], MaxBody, {}, 0))

\* MQTTLogger.on_message(client, userdata, message)
on_message(msg, script) ==
    /\ engine = "Active"
    /\ subscribed
    /\ n_msgs < MaxMsgs
    /\ n_msgs' = n_msgs + 1
    /\ Deliver(Classify(active_tables, msg, script), msg)
    /\ UNCHANGED <<subscribed, active_tables, inactive_tables, last_info_mail_ts,
                   last_db_size_check_ts>>
    /\ UNCHANGED <<now, msg_cfg, last_call, dispatched, n_calls>>
    /\ UNCHANGED <<san_vars, ins_vars, thr_vars>>

-----------------------------------------------------------------------------
(* The specifications *)

\* the configurations of the logger's MessageSender
EngineConfigs ==
    { MsgConfig(h, TRUE, FALSE, FALSE, AllTriggers({"stdout", "logfile"})) :
        h \in 0..MaxRepeatHours }

IdleConfigs == { MsgConfig(0, FALSE, FALSE, FALSE, AllTriggers({})) }

\* the logger: start, connect, messages, time
Init == SanIdle /\ InsIdle /\ SndInit(EngineConfigs) /\ EngInit

Next ==
    \/ \E schema \in EngineSchemas, readable \in BOOLEAN, connect_ok \in BOOLEAN :
            Start(schema, readable, connect_ok)
    \/ on_connect
    \/ \E msg \in Messages, script \in EngineScripts : on_message(msg, script)
    \/ Tick

Spec == Init /\ [][Next]_vars

\* the sanitizer on every field spec and raw value
InitSanitize ==
    /\ san_spec \in SanSpecs
    /\ san_raw \in SanRaws
    /\ san_out = {}
    /\ san_again = {}
    /\ InsIdle /\ SndInit(IdleConfigs) /\ EngInit

NextSanitize == SanitizeCall \/ SanitizeAgain

SpecSanitize == InitSanitize /\ [][NextSanitize]_vars

\* one insert against every script of store answers
InitInsert ==
    /\ ins_resp \in StoreScripts
    /\ ins_st = InsertStart
    /\ SanIdle /\ SndInit(IdleConfigs) /\ EngInit

NextInsert == InsertAttempt

SpecInsert == InitInsert /\ [][NextInsert]_vars

\* the attempts of a running insert follow one another: the retry loop is
\* ordinary code of one thread and time.sleep(0.2) returns
SpecInsertFair == SpecInsert /\ WF_vars(InsertAttempt)

\* a MessageSender called directly, any keys, any times
InitSend == SanIdle /\ InsIdle /\ SndInit(SendConfigs) /\ EngInit

NextSend == SendCall \/ Tick

SpecSend == InitSend /\ [][NextSend]_vars

-----------------------------------------------------------------------------
(* MessageSender: the throttle *)

\* the call that the step makes is a send() with key k
IsSendOf(k) == n_calls' = n_calls + 1 /\ last_call'.key = k

C1_Spacing ==
    \A k \in DOMAIN dispatched : \A i, j \in 1..Len(dispatched[k]) :
        i < j => dispatched[k][j] - dispatched[k][i] >= max_repeat(msg_cfg)

C1_DispatchWhenDue ==
    \A k \in SendKeys :
        (IsSendOf(k) /\ k \in DOMAIN last_sent /\ now - last_sent[k] > max_repeat(msg_cfg))
            => last_call'.sent

\* C1: any two dispatching send() calls with the same key are at least the
\* minimum repeat interval apart, and a call made more than that interval
\* after the last dispatch of its key (the time send recorded for it) dispatches.
C1_Throttle == []C1_Spacing /\ [][C1_DispatchWhenDue]_vars

\* a dispatch, a suppressed call and a second dispatch of one key
C1_Witness ==
    /\ max_repeat(msg_cfg) > 0
    /\ n_calls = 3
    /\ last_call.sent
    /\ \E k \in DOMAIN dispatched : Len(dispatched[k]) = 2 /\ DOMAIN dispatched = {k}

\* every call with key k is decided as the plainest call with key k is
C2_Independent ==
    \A k \in SendKeys, title \in SendTitles, chs \in SendChannelSets,
       p \in SendPayloads, pf \in {{}, {MaxBody}} :
        send(last_sent, msg_cfg, now, k, title, chs, p, pf, 0).sent
            = send(last_sent, msg_cfg, now, k, "", {}, 0, {}, 0).sent

C2_SuppressedIsSilent ==
    \A k \in SendKeys :
        (IsSendOf(k) /\ k \in DOMAIN last_sent /\ now - last_sent[k] < max_repeat(msg_cfg))
            => /\ ~last_call'.sent
               /\ last_call'.emits = {}
               /\ last_sent' = last_sent

\* C2: a send() inside the repeat interval of its key returns false, emits on
\* no channel and leaves the throttle map as it was; whether a call is
\* suppressed does not depend on its title, body or channel set.
C2_Suppression == []C2_Independent /\ [][C2_SuppressedIsSilent]_vars

\* a call with every channel enabled was suppressed
C2_Witness ==
    /\ n_calls > 0
    /\ ~last_call.sent
    /\ last_call.key \in DOMAIN last_sent
    /\ last_call.channels = Channels
    /\ last_call.payload = MaxBody

-----------------------------------------------------------------------------
(* DatabaseManager.insert: the retry loop *)

AllLocked(tr, n) == \A i \in 1..n : tr[i] = "locked"

C10_Safety ==
    ins_st.status # "idle" =>
        /\ ins_st.attempt = Len(ins_st.trace)
        /\ ins_st.attempt <= MaxAttempts
        /\ \A i \in 1..Len(ins_st.trace) : ins_st.trace[i] = ins_resp[i]
        /\ AllLocked(ins_st.trace, ins_st.attempt - 1)
        /\ ins_st.status = "running" =>
                ins_st.attempt < MaxAttempts /\ AllLocked(ins_st.trace, ins_st.attempt)
        /\ ins_st.status = "returned" => ins_st.trace[ins_st.attempt] = "ok"
        /\ ins_st.status = "raised" =>
                /\ ins_st.trace[ins_st.attempt] # "ok"
                /\ ins_st.trace[ins_st.attempt] = "locked" => ins_st.attempt = MaxAttempts

InsertDone == ins_st.status \in {"returned", "raised"}

\* C10: insert makes a further attempt only after "locked", at most 5 attempts
\* in all, returns with the first attempt that succeeds, raises when all 5
\* found the store locked or at the first other error, and always ends.
C10_Insert == []C10_Safety /\ <>InsertDone

\* four locked attempts, then the one that commits
C10_Witness == ins_st.status = "returned" /\ ins_st.attempt = MaxAttempts

-----------------------------------------------------------------------------
(* Sensor.sanitize_value: what it returns *)

\* Python's == on two values: bool, int and float compare as numbers
IsNumber(v) == v.t \in {"bool", "int", "float"}
Tenths(v) ==
    CASE v.t = "bool" -> (IF v.v THEN 10 ELSE 0)
      [] v.t = "int" -> 10 * v.v
      [] OTHER -> v.v
PyEq(a, b) == IF IsNumber(a) /\ IsNumber(b) THEN Tenths(a) = Tenths(b) ELSE a = b

SanKeyHit == san_out # {} /\ as_str_key(san_raw) \in DOMAIN san_spec.invalid_map
SanReplacement == san_spec.invalid_map[as_str_key(san_raw)]

\* C4: sanitize_value returns a pair (storedValue, isGood) with a boolean isGood.
C4_ReturnsPair ==
    san_out # {} =>
        /\ TheOne(san_out).t = "list"
        /\ Len(TheOne(san_out).v) = 2
        /\ TheOne(san_out).v[2].t = "bool"

\* C5 as stated: a raw value whose string key is in invalid_map comes back as
\* the mapped replacement itself, whatever the field type.
C5_ReplacementExact == SanKeyHit => PyEq(TheOne(san_out), SanReplacement)

\* C5: a raw value whose string key is in invalid_map comes back as null when
\* the replacement is null, and otherwise as the replacement converted to the
\* declared field type like any raw value of a spec without invalid_map.
C5_ReplacementConverted ==
    SanKeyHit =>
        /\ SanReplacement = PyNone => TheOne(san_out) = PyNone
        /\ TheOne(san_out) = Convert(san_spec, FirstOfList(SanReplacement))
                \/ SanReplacement = PyNone

\* a non-null replacement that the float conversion turns into null
C5_Witness ==
    /\ SanKeyHit
    /\ SanReplacement = PyStr(S_na)
    /\ san_spec.field_type = "float"
    /\ TheOne(san_out) = PyNone

\* C6 as stated: sanitizing a stored value again gives the same stored value.
C6_Idempotent == san_again # {} => TheOne(san_again) = TheOne(san_out)

\* C6: sanitizing a stored value again gives the same stored value, provided
\* the string key of the stored value is not itself a key of invalid_map.
C6_IdempotentOffMap ==
    (san_again # {} /\ as_str_key(TheOne(san_out)) \notin DOMAIN san_spec.invalid_map)
        => TheOne(san_again) = TheOne(san_out)

\* a list whose first element was stored after rounding, and stored again
C6_Witness ==
    /\ san_again # {}
    /\ san_raw.t = "list"
    /\ san_spec.invalid_map # <<>>
    /\ TheOne(san_out) = PyFloat(213)
    /\ TheOne(san_again) = PyFloat(213)

-----------------------------------------------------------------------------
(* MQTTLogger.on_message: faults and their notifications *)

\* the step is one call of on_message
IsMessage == n_msgs' = n_msgs + 1

ObsSid == SidOf(sensor_id_from_topic(obs.msg.topic))
ObsTable == TableOf(active_tables, ObsSid)

\* the topic resolves to an active table, the payload is an object with a
\* non-empty timestamp
Accepted ==
    /\ obs.op = "on_message"
    /\ obs.msg.kind = "dict"
    /\ ObsTable # {}
    /\ Truthy(PayloadGet(obs.msg.fields, Tables[TheOne(ObsTable)].timestamp))

ExpectedRow(tcfg, fields) ==
    [c \in Range(FieldsInOrder(tcfg)) |->
        IF c = tcfg.timestamp THEN fields[c]
        ELSE sanitize_value(tcfg.sensors[c], PayloadGet(fields, c))]

\* C3: an accepted message ends with one row of the sanitized values in its
\* table, the receive count and the last-message time of its sensor updated.
C3_AcceptedIsStored ==
    Accepted =>
        /\ obs.outcome = "inserted"
        /\ db_rows[TheOne(ObsTable)] # <<>>
        /\ db_rows[TheOne(ObsTable)][Len(db_rows[TheOne(ObsTable)])]
                = ExpectedRow(Tables[TheOne(ObsTable)], obs.msg.fields)
        /\ ObsSid \in DOMAIN rx_stats
        /\ ObsSid \in DOMAIN last_message_time

C7_FaultContained ==
    (IsMessage /\ obs'.outcome # "inserted") =>
        /\ ~obs'.escaped
        /\ engine' = "Active"
        /\ UNCHANGED <<subscribed, active_tables, inactive_tables, db_rows,
                       last_message_time, rx_stats, bad_value_events>>

DropDue ==
    \/ "EXCEPTION_DatabaseError" \notin DOMAIN last_sent
    \/ now - last_sent["EXCEPTION_DatabaseError"] >= max_repeat(msg_cfg)

C8_DropIsReported ==
    (IsMessage /\ obs'.exc = "DatabaseError") =>
        /\ db_rows' = db_rows
        /\ obs'.sends =
              << [key |-> "EXCEPTION_DatabaseError",
                  sent |-> DropDue,
                  emits |-> IF DropDue
                            THEN Emissions(msg_cfg, msg_cfg.triggers["info"], MaxBody, MaxBody)
                            ELSE {}] >>

C9_FirstOfSensorIsSent ==
    (IsMessage /\ obs'.outcome = "exception"
        /\ SidOf(sensor_id_from_topic(obs'.msg.topic)) \notin DOMAIN exception_counts)
            => obs'.sends[1].sent

\* C9: the notification of an exception is throttled per exception type and
\* sensor, so the first exception of a sensor is never suppressed by one of
\* another sensor.
C9_PerSensorThrottle == [][C9_FirstOfSensorIsSent]_vars

-----------------------------------------------------------------------------
(* src/msg_sender.py : the channels of send() when they fail *)

\* What the channels of one send() meet:
\*   stdout  "ok"            print works
\*           "encode_error"  print(payload) raises, the print of the except
\*                           clause works (the text of the error is plain)
\*           "broken"        every print raises (closed file, broken pipe)
\*   logfile "ok" | "fails"  the log line is written or lost
\*   mail    "ok" | "fails"  the message is prepared or its preparation raises
\* The push channel has no state of its own: requests is not imported, so
\* requests.post raises NameError on every call.
ChannelEnvs ==
    [stdout : {"ok", "encode_error", "broken"},
     logfile : {"ok", "fails"},
     mail : {"ok", "fails"}]

HealthyEnv == [stdout |-> "ok", logfile |-> "ok", mail |-> "ok"]

\* the order in which send() calls its channels
ChannelOrder == <<"stdout", "logfile", "ntfy", "mail">>

\* _log_error(message): logger.error if there is a logger, else print, and
\* print once more in its except clause; TRUE iff an exception leaves it
LogErrorEscapes(cfg, env) == ~cfg.logfile_enabled /\ env.stdout = "broken"

\* One channel of a dispatched send(): whether its _send_* is called, what it
\* emits, and whether an exception leaves it.
ChannelStep(cfg, env, ch, enabled_channels, payload, full) ==
    CASE ch = "stdout" ->
            [called |-> "stdout" \in enabled_channels,
             emits |-> IF "stdout" \in enabled_channels /\ env.stdout = "ok"
                       THEN {[channel |-> "stdout", len |-> payload]} ELSE {},
             escapes |-> "stdout" \in enabled_channels /\ env.stdout = "broken"]
      [] ch = "logfile" ->
            [called |-> "logfile" \in enabled_channels /\ cfg.logfile_enabled,
             emits |-> IF "logfile" \in enabled_channels /\ cfg.logfile_enabled
                          /\ env.logfile = "ok"
                       THEN {[channel |-> "logfile",
                              len |-> Truncate(full, cfg.logfile_preview)]}
                       ELSE {},
             escapes |-> FALSE]
      [] ch = "ntfy" ->
            [called |-> "ntfy" \in enabled_channels,
             emits |-> {},
             escapes |-> "ntfy" \in enabled_channels /\ cfg.ntfy_enabled
                            /\ LogErrorEscapes(cfg, env)]
      [] OTHER ->
            [called |-> "mail" \in enabled_channels,
             emits |-> IF "mail" \in enabled_channels /\ cfg.mail_enabled
                          /\ env.mail = "ok"
                       THEN {[channel |-> "mail", len |-> Truncate(full, cfg.mail_preview)]}
                       ELSE {},
             escapes |-> "mail" \in enabled_channels /\ cfg.mail_enabled
                            /\ env.mail = "fails" /\ LogErrorEscapes(cfg, env)]

NextChannel(acc, ch, step) ==
    [escaped |-> step.escapes,
     emits |-> acc.emits \cup step.emits,
     attempted |-> IF step.called THEN acc.attempted \cup {ch} ELSE acc.attempted]

\* lines 121-132 of send(): the channels one after the other, up to the first
\* one that an exception leaves
RECURSIVE RunChannels(_, _, _, _, _, _, _)
RunChannels(acc, cfg, env, enabled_channels, payload, full, i) ==
    IF i > Len(ChannelOrder) \/ acc.escaped THEN acc
    ELSE RunChannels(
            NextChannel(acc, ChannelOrder[i],
                ChannelStep(cfg, env, ChannelOrder[i], enabled_channels, payload, full)),
            cfg, env, enabled_channels, payload, full, i + 1)

\* send() in the environment env: suppressed, dispatched, or left by the
\* exception of a channel before last_sent is written
SendIn(r, ls, t, dt, run) ==
    IF ~r.sent
    THEN [sent |-> FALSE, raised |-> FALSE, due |-> FALSE, last_sent |-> r.last_sent,
          now |-> r.now, emits |-> {}, attempted |-> {}]
    ELSE IF run.escaped
    THEN [sent |-> FALSE, raised |-> TRUE, due |-> TRUE, last_sent |-> ls,
          now |-> t + dt, emits |-> run.emits, attempted |-> run.attempted]
    ELSE [sent |-> TRUE, raised |-> FALSE, due |-> TRUE, last_sent |-> r.last_sent,
          now |-> r.now, emits |-> run.emits, attempted |-> run.attempted]

send_env(ls, cfg, t, trigger_key, trigger_title, enabled_channels, payload, payload_full, dt, env) ==
    SendIn(send(ls, cfg, t, trigger_key, trigger_title, enabled_channels, payload,
                payload_full, dt),
           ls, t, dt,
           RunChannels([escaped |-> FALSE, emits |-> {}, attempted |-> {}], cfg, env,
                       enabled_channels, payload,
                       IF payload_full = {} THEN payload ELSE TheOne(payload_full), 1))

\* the configurations of a MessageSender whose channels may fail
ChannelConfigs ==
    { MsgConfig(MaxRepeatHours, lf, nt, ml, AllTriggers({"stdout"})) :
        lf \in BOOLEAN, nt \in BOOLEAN, ml \in BOOLEAN }

ChannelSets == {{}, {"stdout"}, Channels \ {"stdout"}, Channels}

\* sender.send(...) called directly while the channels are in the state env
ChannelCall ==
    /\ n_calls < MaxCalls
    /\ \E chs \in ChannelSets, env \in ChannelEnvs :
          LET r == send_env(last_sent, msg_cfg, now, "TEST_MESSAGE", "Test: Demo Message",
                            chs, MaxBody, {}, 0, env)
          IN  /\ last_sent' = r.last_sent
              /\ last_call' = [key |-> "TEST_MESSAGE", title |-> "Test: Demo Message",
                               channels |-> chs, payload |-> MaxBody, payload_full |-> {},
                               at |-> now, sent |-> r.sent, emits |-> r.emits,
                               env |-> env, raised |-> r.raised, due |-> r.due,
                               attempted |-> r.attempted]
              /\ dispatched' =
                    IF r.sent
                    THEN ("TEST_MESSAGE" :>
                            Append(Get(dispatched, "TEST_MESSAGE", <<>>), now)) @@ dispatched
                    ELSE dispatched
    /\ n_calls' = n_calls + 1
    /\ UNCHANGED <<now, msg_cfg>>
    /\ UNCHANGED <<san_vars, ins_vars, eng_vars, thr_vars>>

InitChannels == SanIdle /\ InsIdle /\ SndInit(ChannelConfigs) /\ EngInit

NextChannels == ChannelCall \/ Tick

SpecChannels == InitChannels /\ [][NextChannels]_vars

\* with every channel working, send_env emits what send emits
HealthyAgrees ==
    \A chs \in ChannelSets :
        send_env(last_sent, msg_cfg, now, "TEST_MESSAGE", "", chs, MaxBody, {}, 0, HealthyEnv).emits
            = send(last_sent, msg_cfg, now, "TEST_MESSAGE", "", chs, MaxBody, {}, 0).emits

\* C11: a send() that passes the throttle check records the time against its
\* key and returns true, whatever becomes of its channels.
C11_RecordsOnPass ==
    (n_calls > 0 /\ last_call.due) =>
        /\ last_call.sent
        /\ last_call.key \in DOMAIN last_sent
        /\ last_sent[last_call.key] = last_call.at

\* C12: in a send() that passes the throttle check no exception of a channel
\* leaves send, and every channel enabled for the trigger is attempted.
C12_ChannelsContained ==
    (n_calls > 0 /\ last_call.due) =>
        /\ ~last_call.raised
        /\ last_call.channels \ {"logfile"} \subseteq last_call.attempted
        /\ ("logfile" \in last_call.channels /\ msg_cfg.logfile_enabled)
                => "logfile" \in last_call.attempted

-----------------------------------------------------------------------------
(* MQTTLogger: routing and startup validation *)

\* the topic has three segments or more, the namespace of the logger, and the
\* routing key of a table of the set
TopicResolves(topic, tables) ==
    /\ Len(topic) >= 3
    /\ topic[1] = "mobilealerts"
    /\ \E tk \in tables : Tables[tk].sensor_id = topic[2]

RoutingTopics ==
    Topics \cup { <<"mobilealerts", "0b55aada036f", "json", "raw">>,
                  <<"mobilealerts", "0b55aada036f">>,
                  <<"mobilealerts", "", "json">>,
                  <<"0b55aada036f", "mobilealerts", "json">> }

C13_ResolvedTable ==
    \A tp \in RoutingTopics :
        TableOf(active_tables, SidOf(sensor_id_from_topic(tp))) =
            {tk \in active_tables : TopicResolves(tp, {tk})}

C13_NotFoundIsInert ==
    IsMessage =>
        IF TopicResolves(obs'.msg.topic, active_tables)
        THEN obs'.outcome # "unknown_sensor_error"
        ELSE /\ obs'.outcome = "unknown_sensor_error"
             /\ obs'.ins = NoInsert
             /\ UNCHANGED <<db_rows, last_message_time, rx_stats, bad_value_events,
                            exception_counts, engine>>

\* C13: a topic resolves to a table exactly when it has the shape
\* namespace/routingKey/suffix with the routing key of an active table, and
\* then to that table; a message on any other topic is taken for an unknown
\* sensor, with no insert and no change of the runtime state.
C13_Routing == []C13_ResolvedTable /\ [][C13_NotFoundIsInert]_vars

\* a message for the sensor of an inactive table has been turned away
C13_Witness ==
    /\ obs.op = "on_message"
    /\ obs.msg.topic = TopicR
    /\ "measurements_r" \in inactive_tables
    /\ obs.outcome = "unknown_sensor_error"

\* the schema check of start() has run to its end
Validated ==
    /\ engine # "Starting"
    /\ ~(obs.op = "start" /\ obs.outcome = "schema_unreadable")

\* C14: after the startup validation every configured table is in exactly
\* one of active_tables and inactive_tables.
C14_Partition ==
    Validated =>
        /\ active_tables \cup inactive_tables = AllTableKeys
        /\ active_tables \cap inactive_tables = {}

\* a validation that found tables of both kinds
C14_Witness ==
    /\ Validated
    /\ active_tables # {}
    /\ inactive_tables # {}

\* the store holds the relation of the table, with its timestamp column and
\* with the column of every configured field
RelationFits(schema, tcfg) ==
    /\ schema[tcfg.name] # {}
    /\ tcfg.timestamp \in schema[tcfg.name]
    /\ \A i \in 1..Len(tcfg.sensor_keys) : tcfg.sensor_keys[i] \in schema[tcfg.name]

IsReported(sends, key) == \E i \in 1..Len(sends) : sends[i].key = key

C15_StartJudgesEachTable ==
    \A schema \in EngineSchemas, connect_ok \in BOOLEAN :
        Start(schema, TRUE, connect_ok) =>
            /\ \A tk \in AllTableKeys :
                    /\ tk \in active_tables' <=> RelationFits(schema, Tables[tk])
                    /\ tk \in inactive_tables' <=> ~RelationFits(schema, Tables[tk])
                    /\ tk \in inactive_tables' <=>
                            IsReported(obs'.sends, "SCHEMA_MISMATCH_" \o tk)
            /\ ~obs'.escaped
            /\ engine' \in {"Active", "Exited"}
            /\ engine' = "Exited" => (active_tables' = {} \/ ~connect_ok)

\* C15: the validation of start() makes a table active exactly when the store
\* holds its relation with the timestamp column and every field column; any
\* other table becomes inactive and is reported, each table is judged on its
\* own, and the logger goes on unless no table is left.
C15_ActiveIffColumns == [][C15_StartJudgesEachTable]_vars

\* a start that found one table complete, one without a field column and one
\* without its timestamp column, and went on
C15_Witness ==
    /\ obs.op = "start"
    /\ engine = "Active"
    /\ active_tables = {"measurements_th"}
    /\ inactive_tables = {"measurements_r", "measurements_w"}

C16_NoTransport ==
    /\ (subscribed \/ n_msgs > 0) => (engine \in {"Active", "Crashed"} /\ active_tables # {})
    /\ engine = "Active" => active_tables # {}
    /\ (obs.op = "start" /\ obs.outcome \in {"schema_unreadable", "no_active_tables"}) =>
            /\ engine = "Exited"
            /\ ~IsReported(obs.sends, "LOGGER_STARTUP")

C16_StaysDown ==
    /\ (engine = "Starting" /\ engine' # "Starting" /\ active_tables' = {}) =>
            /\ engine' = "Exited"
            /\ obs'.outcome \in {"schema_unreadable", "no_active_tables"}
    /\ (\E schema \in EngineSchemas, connect_ok \in BOOLEAN :
            Start(schema, FALSE, connect_ok)) =>
            (engine' = "Exited" /\ active_tables' = {})
    /\ engine = "Exited" =>
            (engine' = "Exited" /\ ~subscribed' /\ n_msgs' = 0 /\ db_rows' = db_rows)

\* C16: a start() that finds no active table, or cannot read the store for
\* the schema check, ends the logger: it is never active, never connects or
\* subscribes and never takes a message.
C16_FatalStartup == []C16_NoTransport /\ [][C16_StaysDown]_vars

\* time goes by after a start that found no active table
C16_Witness ==
    /\ engine = "Exited"
    /\ obs.op = "start"
    /\ obs.outcome = "no_active_tables"
    /\ now > 1

-----------------------------------------------------------------------------
(* MQTTLogger.on_message: the messages it turns away *)

\* the class of a payload that on_message rejects for the table tcfg, "" for
\* a payload it goes on with
RejectClass(msg, tcfg) ==
    IF msg.kind = "invalid" THEN "JSON_DECODE_ERROR"
    ELSE IF msg.kind # "dict" THEN "NON_DICT_PAYLOAD"
    ELSE IF tcfg.timestamp \notin DOMAIN msg.fields THEN "MISSING_TIMESTAMP"
    ELSE IF msg.fields[tcfg.timestamp] \in {PyNone, PyStr(<<>>)} THEN "MISSING_TIMESTAMP"
    ELSE ""

TableOfTopic(topic) == CHOOSE tk \in AllTableKeys : Tables[tk].sensor_id = topic[2]

C17_RejectedIsInert ==
    (/\ IsMessage
     /\ TopicResolves(obs'.msg.topic, active_tables)
     /\ RejectClass(obs'.msg, Tables[TableOfTopic(obs'.msg.topic)]) # "") =>
        /\ obs'.ins = NoInsert
        /\ ~obs'.escaped
        /\ Len(obs'.sends) = 1
        /\ obs'.sends[1].key =
                RejectClass(obs'.msg, Tables[TableOfTopic(obs'.msg.topic)])
        /\ UNCHANGED <<db_rows, last_message_time, rx_stats, bad_value_events, engine>>

\* C17: a message for an active sensor whose payload is no JSON, no object,
\* or has no timestamp or an empty one, is not inserted, is reported by one
\* send() under the key of its class, and leaves the last-message time, the
\* receive statistics and the bad-value counter as they were.
C17_Rejection == [][C17_RejectedIsInert]_vars

\* a message with an empty timestamp has been turned away, after one that
\* was no JSON
C17_Witness ==
    /\ obs.op = "on_message"
    /\ obs.outcome = "missing_timestamp"
    /\ obs.msg.topic = TopicW
    /\ "utms" \in DOMAIN obs.msg.fields
    /\ Len(obs.sends) = 1
    /\ n_msgs = 2
    /\ "JSON_DECODE_ERROR" \in DOMAIN last_sent

C18_UnknownIsThrottled ==
    (IsMessage /\ ~TopicResolves(obs'.msg.topic, active_tables)) =>
        /\ Len(obs'.sends) = 1
        /\ obs'.sends[1].key = "UNKNOWN_SENSOR_ERROR"
        /\ obs'.sends[1].sent <=>
                \/ "UNKNOWN_SENSOR_ERROR" \notin DOMAIN last_sent
                \/ now - last_sent["UNKNOWN_SENSOR_ERROR"] >= max_repeat(msg_cfg)
        /\ obs'.sends[1].sent <=> obs'.sends[1].emits # {}
        /\ obs'.sends[1].sent => last_sent'["UNKNOWN_SENSOR_ERROR"] = now

C18_RepeatIsSilent ==
    (/\ obs.op = "on_message"
     /\ obs.outcome = "unknown_sensor_error"
     /\ IsMessage
     /\ obs'.msg.topic = obs.msg.topic
     /\ now - last_sent["UNKNOWN_SENSOR_ERROR"] < max_repeat(msg_cfg)) =>
        /\ ~obs'.sends[1].sent
        /\ obs'.sends[1].emits = {}
        /\ last_sent' = last_sent

-----------------------------------------------------------------------------
(* src/mqtt_logger.py : the periodic checks of the sweep loop *)

MaxHits == 1
MaxStored == 3

\* the MessageConfig of a logger with the settings of its periodic checks
SweepConfig(cfg, window_minutes, check_every_hours, warn_mb, crit_mb, bad_repeat_hours) ==
    [max_repeat_hours |-> cfg.max_repeat_hours,
     logfile_enabled |-> cfg.logfile_enabled,
     ntfy_enabled |-> cfg.ntfy_enabled,
     mail_enabled |-> cfg.mail_enabled,
     stdout_preview |-> cfg.stdout_preview,
     logfile_preview |-> cfg.logfile_preview,
     ntfy_preview |-> cfg.ntfy_preview,
     mail_preview |-> cfg.mail_preview,
     triggers |-> cfg.triggers,
     missing_data_window_minutes |-> window_minutes,
     db_size_check_every_hours |-> check_every_hours,
     db_size_warn_mb |-> warn_mb,
     db_size_crit_mb |-> crit_mb,
     bad_values_max_repeat_every_hours |-> bad_repeat_hours]

\* one tick of the clock in seconds
SecondsPerTick == 3600 \div TicksPerHour

\* window_s = int(window_minutes * 60)
window_s(cfg) == cfg.missing_data_window_minutes * 60

\* the sends of a check so far, with the throttle map and the counters
AddSend(acc, entry, r) ==
    [acc EXCEPT !.last_sent = r.last_sent, !.sends = Append(@, entry)]

\* a missing-data key that is the same for every sensor
MissingDataKey_shared(sid) == "MISSING_DATA"

\* trigger_key = f"MISSING_DATA_{sid}"
MissingDataKey(sid) == "MISSING_DATA_" \o sid

MissingDataSend(acc, cfg, t, sid) ==
    AddSend(acc,
            SendEntry(MissingDataKey(sid),
                send(acc.last_sent, cfg, t, MissingDataKey(sid), "[ALARM] Missing MQTT data",
                     cfg.triggers["missing_data"], MaxBody, {MaxBody}, 0)),
            send(acc.last_sent, cfg, t, MissingDataKey(sid), "[ALARM] Missing MQTT data",
                 cfg.triggers["missing_data"], MaxBody, {MaxBody}, 0))

\* a test that takes a sensor never heard of as silent since the epoch
MissingDataDue_since_epoch(cfg, t, lmt, sid) ==
    (t - Get(lmt, sid, 0)) * SecondsPerTick > window_s(cfg)

\* last = self.last_message_time.get(sid); a sensor with no last message is
\* passed over, another one is due when now - last > window_s
MissingDataDue(cfg, t, lmt, sid) ==
    /\ sid \in DOMAIN lmt
    /\ (t - lmt[sid]) * SecondsPerTick > window_s(cfg)

\* check_missing_data: the loop over active_tables, in their order
RECURSIVE MissingDataLoop(_, _, _, _, _, _)
MissingDataLoop(acc, cfg, t, active, lmt, i) ==
    IF i > Len(TableKeys) THEN acc
    ELSE IF TableKeys[i] \notin active
    THEN MissingDataLoop(acc, cfg, t, active, lmt, i + 1)
    ELSE IF MissingDataDue(cfg, t, lmt, Tables[TableKeys[i]].sensor_id)
    THEN MissingDataLoop(MissingDataSend(acc, cfg, t, Tables[TableKeys[i]].sensor_id),
                         cfg, t, active, lmt, i + 1)
    ELSE MissingDataLoop(acc, cfg, t, active, lmt, i + 1)

\* MQTTLogger.check_missing_data at time t
check_missing_data(acc, cfg, t, active, lmt) ==
    IF window_s(cfg) <= 0 THEN acc ELSE MissingDataLoop(acc, cfg, t, active, lmt, 1)

\* the entry of a bad-values send: the count its body reports
CountEntry(key, r, count) ==
    [key |-> key, sent |-> r.sent, emits |-> r.emits, count |-> count]

\* a check that resets the counter whether or not the message went out
BadValuesAfter_always(bve, sid, sent) == (sid :> 0) @@ bve

\* if sent: self.bad_value_events[sid] = 0
BadValuesAfter(bve, sid, sent) == IF sent THEN (sid :> 0) @@ bve ELSE bve

BadValuesSend(acc, sid, count, r) ==
    [last_sent |-> r.last_sent,
     sends |-> Append(acc.sends, CountEntry("BAD_VALUES_" \o sid, r, count)),
     bve |-> BadValuesAfter(acc.bve, sid, r.sent)]

\* check_bad_values: the loop over active_tables, in their order
RECURSIVE BadValuesLoop(_, _, _, _, _)
BadValuesLoop(acc, cfg, t, active, i) ==
    IF i > Len(TableKeys) THEN acc
    ELSE IF \/ TableKeys[i] \notin active
            \/ Get(acc.bve, Tables[TableKeys[i]].sensor_id, 0) <= 0
    THEN BadValuesLoop(acc, cfg, t, active, i + 1)
    ELSE BadValuesLoop(
            BadValuesSend(acc, Tables[TableKeys[i]].sensor_id,
                Get(acc.bve, Tables[TableKeys[i]].sensor_id, 0),
                send(acc.last_sent, cfg, t, "BAD_VALUES_" \o Tables[TableKeys[i]].sensor_id,
                     "[WARN] Bad values", cfg.triggers["bad_values"],
                     MaxBody, {MaxBody}, 0)),
            cfg, t, active, i + 1)

\* MQTTLogger.check_bad_values at time t
check_bad_values(acc, cfg, t, active) == BadValuesLoop(acc, cfg, t, active, 1)

\* the file of the store as os.path.getsize meets it
DbFiles ==
    {[st |-> "missing", mb |-> 0], [st |-> "unreadable", mb |-> 0]}
    \cup {[st |-> "ok", mb |-> m] : m \in 1..2}

\* get_db_size_bytes: the size, 0 for a missing file, DatabaseError for any
\* other OSError
get_db_size_bytes(file) ==
    [exc |-> IF file.st = "unreadable" THEN "DatabaseError" ELSE "",
     mb |-> IF file.st = "ok" THEN file.mb ELSE 0]

DbSizeResult(acc, last_check, exc) ==
    [last_sent |-> acc.last_sent, sends |-> acc.sends, bve |-> acc.bve,
     last_check |-> last_check, exc |-> exc]

DbSizeSend(acc, cfg, t, key, title) ==
    AddSend(acc,
            SendEntry(key, send(acc.last_sent, cfg, t, key, title, cfg.triggers["db_size"],
                                MaxBody, {MaxBody}, 0)),
            send(acc.last_sent, cfg, t, key, title, cfg.triggers["db_size"],
                 MaxBody, {MaxBody}, 0))

\* a check that looks at warn_mb before crit_mb
DbSizeJudge_warn_first(acc, cfg, t, size) ==
    IF size.exc # "" THEN DbSizeResult(acc, t, size.exc)
    ELSE IF cfg.db_size_warn_mb # 0 /\ size.mb >= cfg.db_size_warn_mb
    THEN DbSizeResult(DbSizeSend(acc, cfg, t, "DB_SIZE_WARNING", "[WARN] DB size warning"),
                      t, "")
    ELSE IF cfg.db_size_crit_mb # 0 /\ size.mb >= cfg.db_size_crit_mb
    THEN DbSizeResult(DbSizeSend(acc, cfg, t, "DB_SIZE_CRITICAL", "[ALARM] DB size critical"),
                      t, "")
    ELSE DbSizeResult(acc, t, "")

\* check_db_size once the check is due: the size against crit_mb, then warn_mb
DbSizeJudge(acc, cfg, t, size) ==
    IF size.exc # "" THEN DbSizeResult(acc, t, size.exc)
    ELSE IF cfg.db_size_crit_mb # 0 /\ size.mb >= cfg.db_size_crit_mb
    THEN DbSizeResult(DbSizeSend(acc, cfg, t, "DB_SIZE_CRITICAL", "[ALARM] DB size critical"),
                      t, "")
    ELSE IF cfg.db_size_warn_mb # 0 /\ size.mb >= cfg.db_size_warn_mb
    THEN DbSizeResult(DbSizeSend(acc, cfg, t, "DB_SIZE_WARNING", "[WARN] DB size warning"),
                      t, "")
    ELSE DbSizeResult(acc, t, "")

\* MQTTLogger.check_db_size at time t
check_db_size(acc, cfg, t, last_check, file) ==
    IF cfg.db_size_check_every_hours <= 0 THEN DbSizeResult(acc, last_check, "")
    ELSE IF last_check # 0 /\ (t - last_check) < cfg.db_size_check_every_hours * TicksPerHour
    THEN DbSizeResult(acc, last_check, "")
    ELSE DbSizeJudge(acc, cfg, t, get_db_size_bytes(file))

\* the sweep after maybe_send_info_mail, its last check
SweepDone(d, m) ==
    /\ last_sent' = m.last_sent
    /\ bad_value_events' = d.bve
    /\ last_db_size_check_ts' = d.last_check
    /\ last_info_mail_ts' = m.info_ts
    /\ rx_stats' = m.stats
    /\ obs' = Obs("sweep", NoMsg, "swept", "", FALSE, d.sends \o m.sends, NoInsert)
    /\ UNCHANGED <<engine, subscribed>>

\* the sweep left by the DatabaseError of check_db_size: the while loop of
\* start() ends, its finally clause stops and disconnects the client
SweepRaised(d) ==
    /\ last_sent' = d.last_sent
    /\ bad_value_events' = d.bve
    /\ last_db_size_check_ts' = d.last_check
    /\ engine' = "Crashed"
    /\ subscribed' = FALSE
    /\ obs' = Obs("sweep", NoMsg, "exception", d.exc, TRUE, d.sends, NoInsert)
    /\ UNCHANGED <<last_info_mail_ts, rx_stats>>

SweepAfterDbSize(d) ==
    IF d.exc # "" THEN SweepRaised(d)
    ELSE SweepDone(d, maybe_send_info_mail(d.last_sent, msg_cfg, now, last_info_mail_ts,
                                           rx_stats, active_tables))

SweepAfterBadValues(acc, file) ==
    SweepAfterDbSize(check_db_size(acc, msg_cfg, now, last_db_size_check_ts, file))

SweepAfterMissingData(acc, file) ==
    SweepAfterBadValues(check_bad_values(acc, msg_cfg, now, active_tables), file)

\* one turn of the loop of start(): check_missing_data, check_bad_values,
\* check_db_size, maybe_send_info_mail
Sweep(file) ==
    /\ engine = "Active"
    /\ SweepAfterMissingData(
            check_missing_data([last_sent |-> last_sent, sends |-> <<>>,
                                bve |-> bad_value_events],
                               msg_cfg, now, active_tables, last_message_time),
            file)
    /\ UNCHANGED <<active_tables, inactive_tables, last_message_time, exception_counts,
                   db_rows, n_msgs>>
    /\ UNCHANGED <<now, msg_cfg, last_call, dispatched, n_calls>>
    /\ UNCHANGED <<san_vars, ins_vars, thr_vars>>

\* the topic of a table's sensor
TopicOf(tk) == <<"mobilealerts", Tables[tk].sensor_id, "json">>

\* an on_message for the sensor of table tk whose field loop counted hits bad
\* values and whose insert was committed at once
on_message_stored(tk, hits) ==
    /\ engine = "Active"
    /\ subscribed
    /\ tk \in active_tables
    /\ n_msgs < MaxStored
    /\ n_msgs' = n_msgs + 1
    /\ Stored([outcome |-> "inserted", sid |-> Tables[tk].sensor_id, tk |-> {tk},
               exc |-> "", record |-> (Tables[tk].timestamp :> PyStr(S_ts)),
               bad_hit |-> hits, ins |-> insert(Script(0, "ok"))],
              Msg(TopicOf(tk), "dict", (Tables[tk].timestamp :> PyStr(S_ts))), tk)
    /\ UNCHANGED <<subscribed, active_tables, inactive_tables, last_info_mail_ts,
                   last_db_size_check_ts>>
    /\ UNCHANGED <<now, msg_cfg, last_call, dispatched, n_calls>>
    /\ UNCHANGED <<san_vars, ins_vars, thr_vars>>

\* the configurations of a logger whose sweep is looked at
SweepWindows == {0, 30}

SweepConfigs ==
    { SweepConfig(MsgConfig(h, TRUE, FALSE, FALSE, AllTriggers({"stdout", "logfile"})),
                  w, 1, 1, 2, MaxRepeatHours + 1) :
        h \in {MaxRepeatHours}, w \in SweepWindows }

SweepSchemas == { [FullSchema EXCEPT !["measurements_r"] = {}] }

\* the logger with its sweep: start, one connect that holds, stored messages,
\* sweeps, time
InitSweep == SanIdle /\ InsIdle /\ SndInit(SweepConfigs) /\ EngInit

\* the first on_connect; the connection holds from then on
connect_once == ~subscribed /\ on_connect

NextSweep ==
    \/ \E schema \in SweepSchemas : Start(schema, TRUE, TRUE)
    \/ connect_once
    \/ \E tk \in AllTableKeys, hits \in 0..MaxHits : on_message_stored(tk, hits)
    \/ \E file \in DbFiles : Sweep(file)
    \/ Tick

SpecSweep == InitSweep /\ [][NextSweep]_vars

-----------------------------------------------------------------------------
(* MQTTLogger: what a sweep notifies *)

\* the step is one turn of the sweep loop
IsSweep == obs'.op = "sweep" /\ now' = now

ActiveSids == {Tables[tk].sensor_id : tk \in active_tables}

EntriesOf(sends, key) == {i \in 1..Len(sends) : sends[i].key = key}

\* the throttle lets the key through at this moment
KeyIsDue(key) ==
    key \notin DOMAIN last_sent \/ now - last_sent[key] >= max_repeat(msg_cfg)

\* the last message of the sensor lies more than the window before now
Overdue(sid) ==
    /\ sid \in DOMAIN last_message_time
    /\ (now - last_message_time[sid]) * SecondsPerTick
            > msg_cfg.missing_data_window_minutes * 60

C19_OverdueIsAttempted ==
    IsSweep => \A sid \in ActiveSids :
        Overdue(sid) => EntriesOf(obs'.sends, "MISSING_DATA_" \o sid) # {}

C19_SweepStep ==
    IsSweep => \A sid \in ActiveSids :
        IF Overdue(sid) /\ msg_cfg.missing_data_window_minutes > 0
        THEN /\ Cardinality(EntriesOf(obs'.sends, "MISSING_DATA_" \o sid)) = 1
             /\ \A i \in EntriesOf(obs'.sends, "MISSING_DATA_" \o sid) :
                    /\ obs'.sends[i].sent <=> KeyIsDue("MISSING_DATA_" \o sid)
                    /\ obs'.sends[i].sent <=> obs'.sends[i].emits # {}
        ELSE EntriesOf(obs'.sends, "MISSING_DATA_" \o sid) = {}

\* C19 as stated: in each sweep a missing-data notification is attempted for
\* every active table whose sensor has been silent for more than the window.
C19_EveryOverdueSensor == [][C19_OverdueIsAttempted]_vars

\* C19: in each sweep of a logger with a positive window, a missing-data
\* notification is attempted once, under the key MISSING_DATA_<sensor>, for
\* every active table whose sensor has been silent for more than the window;
\* it notifies if that key has not fired within max_repeat_hours, whatever
\* the other sensors' keys; with a window of 0 nothing is attempted.
C19_MissingData == [][C19_SweepStep]_vars

\* a sweep in which the alert of one sensor was held back by the throttle and
\* the alert of another sensor went out
C19_Witness ==
    /\ obs.op = "sweep"
    /\ \E i, j \in 1..Len(obs.sends) :
            /\ obs.sends[i].key = "MISSING_DATA_11566802925f"
            /\ ~obs.sends[i].sent
            /\ obs.sends[j].key = "MISSING_DATA_0b55aada036f"
            /\ obs.sends[j].sent

C20_SweepStep ==
    IsSweep => \A sid \in ActiveSids :
        IF Get(bad_value_events, sid, 0) <= 0
        THEN /\ EntriesOf(obs'.sends, "BAD_VALUES_" \o sid) = {}
             /\ Get(bad_value_events', sid, 0) = 0
        ELSE /\ Cardinality(EntriesOf(obs'.sends, "BAD_VALUES_" \o sid)) = 1
             /\ \A i \in EntriesOf(obs'.sends, "BAD_VALUES_" \o sid) :
                    /\ obs'.sends[i].count = bad_value_events[sid]
                    /\ obs'.sends[i].sent <=> KeyIsDue("BAD_VALUES_" \o sid)
                    /\ obs'.sends[i].sent <=> obs'.sends[i].emits # {}
                    /\ Get(bad_value_events', sid, 0) =
                            IF obs'.sends[i].sent THEN 0 ELSE bad_value_events[sid]

C20_OnlyFiredResets ==
    \A sid \in DOMAIN bad_value_events :
        bad_value_events'[sid] < bad_value_events[sid] =>
            /\ IsSweep
            /\ bad_value_events'[sid] = 0
            /\ \E i \in EntriesOf(obs'.sends, "BAD_VALUES_" \o sid) :
                    obs'.sends[i].sent /\ obs'.sends[i].count = bad_value_events[sid]

\* C20: check_bad_values sends for each active sensor with a positive counter,
\* reporting the counter, and sets it to zero exactly when that send went out;
\* a throttled send leaves the counter as it is, a sensor with a zero counter
\* gets no send, and nothing else ever lowers a counter.
C20_BadValues == [][C20_SweepStep /\ C20_OnlyFiredResets]_vars

\* a throttled bad-values send whose counter holds the hits of two messages
C20_Witness ==
    /\ obs.op = "sweep"
    /\ \E i \in 1..Len(obs.sends) :
            /\ obs.sends[i].key = "BAD_VALUES_0b55aada036f"
            /\ ~obs.sends[i].sent
            /\ obs.sends[i].count = 2
    /\ bad_value_events["0b55aada036f"] = 2
    /\ "BAD_VALUES_0b55aada036f" \in DOMAIN last_sent

-----------------------------------------------------------------------------
(* MessageSender: the interval of a trigger category *)

\* C21: two bad-values notifications of one sensor that went out are never
\* closer together than max_repeat_every_hours of the bad-values trigger.
C21_CategoryInterval ==
    [][IsSweep => \A sid \in ActiveSids :
        \A i \in EntriesOf(obs'.sends, "BAD_VALUES_" \o sid) :
            (obs'.sends[i].sent /\ ("BAD_VALUES_" \o sid) \in DOMAIN last_sent) =>
                now - last_sent["BAD_VALUES_" \o sid]
                    >= msg_cfg.bad_values_max_repeat_every_hours * TicksPerHour]_vars

-----------------------------------------------------------------------------
(* MQTTLogger: the sweep of a logger that receives nothing *)

\* (warn_mb, crit_mb) of the configurations; 0 switches a level off
WatchThresholds == {<<1, 2>>, <<0, 2>>, <<1, 0>>, <<2, 1>>}

WatchConfigs ==
    { SweepConfig(MsgConfig(h, TRUE, FALSE, FALSE, AllTriggers({"stdout", "logfile"})),
                  30, e, th[1], th[2], MaxRepeatHours + 1) :
        h \in 0..MaxRepeatHours, e \in 0..1, th \in WatchThresholds }

InitWatch == SanIdle /\ InsIdle /\ SndInit(WatchConfigs) /\ EngInit

NextWatch ==
    \/ \E schema \in SweepSchemas : Start(schema, TRUE, TRUE)
    \/ \E file \in DbFiles : Sweep(file)
    \/ Tick

SpecWatch == InitWatch /\ [][NextWatch]_vars

\* check_db_size gets as far as reading the size of the file
DbCheckDue ==
    /\ msg_cfg.db_size_check_every_hours > 0
    /\ \/ last_db_size_check_ts = 0
       \/ now - last_db_size_check_ts >= msg_cfg.db_size_check_every_hours * TicksPerHour

Attempts(sends, key) == Cardinality(EntriesOf(sends, key))

C22_ByThreshold ==
    \A file \in DbFiles :
        (Sweep(file) /\ DbCheckDue /\ file.st # "unreadable") =>
            IF get_db_size_bytes(file).mb >= msg_cfg.db_size_crit_mb
            THEN /\ Attempts(obs'.sends, "DB_SIZE_CRITICAL") = 1
                 /\ Attempts(obs'.sends, "DB_SIZE_WARNING") = 0
            ELSE IF get_db_size_bytes(file).mb >= msg_cfg.db_size_warn_mb
            THEN /\ Attempts(obs'.sends, "DB_SIZE_CRITICAL") = 0
                 /\ Attempts(obs'.sends, "DB_SIZE_WARNING") = 1
            ELSE /\ Attempts(obs'.sends, "DB_SIZE_CRITICAL") = 0
                 /\ Attempts(obs'.sends, "DB_SIZE_WARNING") = 0

CritApplies(file) ==
    /\ msg_cfg.db_size_crit_mb # 0
    /\ get_db_size_bytes(file).mb >= msg_cfg.db_size_crit_mb

WarnApplies(file) ==
    /\ msg_cfg.db_size_warn_mb # 0
    /\ get_db_size_bytes(file).mb >= msg_cfg.db_size_warn_mb

C22_ByEnabledThreshold ==
    \A file \in DbFiles :
        Sweep(file) =>
            IF DbCheckDue /\ file.st # "unreadable"
            THEN /\ Attempts(obs'.sends, "DB_SIZE_CRITICAL") =
                        IF CritApplies(file) THEN 1 ELSE 0
                 /\ Attempts(obs'.sends, "DB_SIZE_WARNING") =
                        IF ~CritApplies(file) /\ WarnApplies(file) THEN 1 ELSE 0
            ELSE /\ Attempts(obs'.sends, "DB_SIZE_CRITICAL") = 0
                 /\ Attempts(obs'.sends, "DB_SIZE_WARNING") = 0

\* C22 as stated: a size at or above crit_mb gets the critical send and not
\* the warning, a size from warn_mb up to crit_mb gets the warning, a size
\* below both gets neither.
C22_CriticalOverWarning == [][C22_ByThreshold]_vars

\* C22: with thresholds other than 0, a check_db_size that reads a size at or
\* above crit_mb makes the critical send and not the warning, a size from
\* warn_mb up to crit_mb makes the warning send only, a size below both makes
\* none; a threshold of 0 switches its level off.
C22_DbSize == [][C22_ByEnabledThreshold]_vars

\* a check found the file at the critical size, both levels being on
C22_Witness ==
    /\ obs.op = "sweep"
    /\ msg_cfg.db_size_warn_mb = 1
    /\ msg_cfg.db_size_crit_mb = 2
    /\ Attempts(obs.sends, "DB_SIZE_CRITICAL") = 1
    /\ Attempts(obs.sends, "DB_SIZE_WARNING") = 0
    /\ last_db_size_check_ts = now

-----------------------------------------------------------------------------
(* MQTTLogger.maybe_send_info_mail *)

\* the step is a start() or a sweep, the callers of maybe_send_info_mail
CallsInfoMail == obs'.op \in {"start", "sweep"} /\ now' = now /\ obs' # obs

\* the info message of the step went out
InfoMailSent ==
    \E i \in EntriesOf(obs'.sends, "INFO_PERIODIC") : obs'.sends[i].sent

C23_InfoMailStep ==
    CallsInfoMail =>
        /\ DOMAIN rx_stats' = DOMAIN rx_stats
        /\ \A sid \in DOMAIN rx_stats :
                /\ rx_stats'[sid].count_total = rx_stats[sid].count_total
                /\ rx_stats'[sid].first_ts = rx_stats[sid].first_ts
                /\ rx_stats'[sid].last_ts = rx_stats[sid].last_ts
        /\ IF InfoMailSent
           THEN /\ last_info_mail_ts' = now
                /\ \A sid \in DOMAIN rx_stats :
                        IF sid \in ActiveSids
                        THEN /\ rx_stats'[sid].last_info_count = rx_stats[sid].count_total
                             /\ rx_stats'[sid].last_info_ts = now
                        ELSE rx_stats'[sid] = rx_stats[sid]
           ELSE /\ last_info_mail_ts' = last_info_mail_ts
                /\ rx_stats' = rx_stats

C23_OnlyInfoMailMoves ==
    \/ last_info_mail_ts' = last_info_mail_ts
    \/ (CallsInfoMail /\ InfoMailSent)

\* C23: maybe_send_info_mail moves last_info_count and last_info_ts of the
\* active sensors, and the time of the last info mail, exactly when its send
\* went out; skipped or throttled it changes nothing, and it never touches
\* count_total, first_ts or last_ts.
C23_InfoMail == [][C23_InfoMailStep /\ C23_OnlyInfoMailMoves]_vars

\* a sweep whose info mail went out and took the two messages of a sensor as
\* its new reference
C23_Witness ==
    /\ obs.op = "sweep"
    /\ \E i \in EntriesOf(obs.sends, "INFO_PERIODIC") : obs.sends[i].sent
    /\ last_info_mail_ts = now
    /\ \E sid \in DOMAIN rx_stats :
            /\ rx_stats[sid].last_info_count = 2
            /\ rx_stats[sid].count_total = 2
            /\ rx_stats[sid].last_info_ts = now

-----------------------------------------------------------------------------
(* src/mqtt_logger.py : the callback thread and the sweep thread *)

\* client.loop_start() runs on_message on the thread of the MQTT client while
\* start() stays in its sweep loop on the main thread.  Neither takes a lock:
\* the statements of the two interleave, one statement at a time here.

\* what no statement of either handler writes
thr_fixed == <<san_vars, ins_vars, now, msg_cfg, last_call, dispatched, n_calls,
               active_tables, inactive_tables, exception_counts, obs>>

\* the messages the callback thread stores in one run
MaxThreadMsgs == 2

AtCallback(label) == [pc EXCEPT !.callback = label]
AtSweep(label) == [pc EXCEPT !.sweep = label]

NoAcct == [hits |-> 0, reported |-> 0]

\* on_message up to self.dbs[table.key].insert(record), for a message that is
\* stored and whose field loop counted hits bad values
cb_insert(tk, hits) ==
    /\ engine = "Active"
    /\ subscribed
    /\ pc.callback = "idle"
    /\ tk \in active_tables
    /\ n_msgs < MaxThreadMsgs
    /\ n_msgs' = n_msgs + 1
    /\ db_rows' = [db_rows EXCEPT ![tk] =
            Append(@, RowOf(Tables[tk], (Tables[tk].timestamp :> PyStr(S_ts))))]
    /\ pc' = AtCallback("last_message_time")
    /\ tmp' = [tmp EXCEPT !.callback =
                    [sid |-> Tables[tk].sensor_id, bad_hit |-> hits, now |-> 0]]
    /\ UNCHANGED <<engine, subscribed, last_sent, last_message_time, rx_stats,
                   bad_value_events, last_info_mail_ts, last_db_size_check_ts, acct>>
    /\ UNCHANGED thr_fixed

\* now = time.time(); self.last_message_time[sensor_id] = now
cb_last_message_time ==
    /\ pc.callback = "last_message_time"
    /\ last_message_time' = (tmp.callback.sid :> now) @@ last_message_time
    /\ tmp' = [tmp EXCEPT !.callback.now = now]
    /\ pc' = AtCallback("rx_stats")
    /\ UNCHANGED <<engine, subscribed, last_sent, rx_stats, bad_value_events,
                   last_info_mail_ts, last_db_size_check_ts, db_rows, n_msgs, acct>>
    /\ UNCHANGED thr_fixed

\* st = self.rx_stats.get(sensor_id) and the update of the statistics
cb_rx_stats ==
    /\ pc.callback = "rx_stats"
    /\ rx_stats' =
          IF tmp.callback.sid \notin DOMAIN rx_stats
          THEN (tmp.callback.sid :>
                    [count_total |-> 1, first_ts |-> tmp.callback.now,
                     last_ts |-> tmp.callback.now,
                     last_info_count |-> 0, last_info_ts |-> 0]) @@ rx_stats
          ELSE [rx_stats EXCEPT ![tmp.callback.sid].count_total = @ + 1,
                                ![tmp.callback.sid].last_ts = tmp.callback.now]
    /\ pc' = AtCallback("bad_value_events")
    /\ UNCHANGED <<engine, subscribed, last_sent, last_message_time, bad_value_events,
                   last_info_mail_ts, last_db_size_check_ts, db_rows, n_msgs, tmp, acct>>
    /\ UNCHANGED thr_fixed

\* if bad_hit > 0: self.bad_value_events[sensor_id] = ... + bad_hit
cb_bad_value_events ==
    /\ pc.callback = "bad_value_events"
    /\ bad_value_events' =
          IF tmp.callback.bad_hit > 0
          THEN (tmp.callback.sid :>
                    (Get(bad_value_events, tmp.callback.sid, 0) + tmp.callback.bad_hit))
               @@ bad_value_events
          ELSE bad_value_events
    /\ acct' = (tmp.callback.sid :>
                    [Get(acct, tmp.callback.sid, NoAcct) EXCEPT
                        !.hits = @ + tmp.callback.bad_hit]) @@ acct
    /\ pc' = AtCallback("idle")
    /\ tmp' = [tmp EXCEPT !.callback = <<>>]
    /\ UNCHANGED <<engine, subscribed, last_sent, last_message_time, rx_stats,
                   last_info_mail_ts, last_db_size_check_ts, db_rows, n_msgs>>
    /\ UNCHANGED thr_fixed

SweepLocals(i, count, sent) == [i |-> i, count |-> count, sent |-> sent]

\* time.sleep(60) returns; self.check_missing_data()
sw_missing_data ==
    /\ engine = "Active"
    /\ pc.sweep = "idle"
    /\ last_sent' = check_missing_data([last_sent |-> last_sent, sends |-> <<>>,
                                        bve |-> bad_value_events],
                                       msg_cfg, now, active_tables,
                                       last_message_time).last_sent
    /\ pc' = AtSweep("bad_values")
    /\ tmp' = [tmp EXCEPT !.sweep = SweepLocals(1, 0, FALSE)]
    /\ UNCHANGED <<engine, subscribed, last_message_time, rx_stats, bad_value_events,
                   last_info_mail_ts, last_db_size_check_ts, db_rows, n_msgs, acct>>
    /\ UNCHANGED thr_fixed

\* the sensor of the table that check_bad_values is at
SweepSid == Tables[TableKeys[tmp.sweep.i]].sensor_id

\* check_bad_values: the next table; count = self.bad_value_events.get(sid, 0)
sw_bad_read ==
    /\ pc.sweep = "bad_values"
    /\ IF tmp.sweep.i > Len(TableKeys)
       THEN pc' = AtSweep("db_size") /\ tmp' = tmp
       ELSE IF \/ TableKeys[tmp.sweep.i] \notin active_tables
               \/ Get(bad_value_events, SweepSid, 0) <= 0
       THEN /\ pc' = pc
            /\ tmp' = [tmp EXCEPT !.sweep.i = @ + 1]
       ELSE /\ pc' = AtSweep("bad_send")
            /\ tmp' = [tmp EXCEPT !.sweep.count = bad_value_events[SweepSid]]
    /\ UNCHANGED <<engine, subscribed, last_sent, last_message_time, rx_stats,
                   bad_value_events, last_info_mail_ts, last_db_size_check_ts,
                   db_rows, n_msgs, acct>>
    /\ UNCHANGED thr_fixed

BadSent(r) ==
    /\ last_sent' = r.last_sent
    /\ tmp' = [tmp EXCEPT !.sweep.sent = r.sent]
    /\ acct' = IF r.sent
               THEN (SweepSid :> [Get(acct, SweepSid, NoAcct) EXCEPT
                                    !.reported = @ + tmp.sweep.count]) @@ acct
               ELSE acct

\* check_bad_values: sent = self.msg_sender.send(...), the body holding count
sw_bad_send ==
    /\ pc.sweep = "bad_send"
    /\ BadSent(send(last_sent, msg_cfg, now, "BAD_VALUES_" \o SweepSid, "[WARN] Bad values",
                    msg_cfg.triggers["bad_values"], MaxBody, {MaxBody}, 0))
    /\ pc' = AtSweep("bad_reset")
    /\ UNCHANGED <<engine, subscribed, last_message_time, rx_stats, bad_value_events,
                   last_info_mail_ts, last_db_size_check_ts, db_rows, n_msgs>>
    /\ UNCHANGED thr_fixed

\* check_bad_values: if sent: self.bad_value_events[sid] = 0
sw_bad_reset ==
    /\ pc.sweep = "bad_reset"
    /\ bad_value_events' = BadValuesAfter(bad_value_events, SweepSid, tmp.sweep.sent)
    /\ pc' = AtSweep("bad_values")
    /\ tmp' = [tmp EXCEPT !.sweep = SweepLocals(tmp.sweep.i + 1, 0, FALSE)]
    /\ UNCHANGED <<engine, subscribed, last_sent, last_message_time, rx_stats,
                   last_info_mail_ts, last_db_size_check_ts, db_rows, n_msgs, acct>>
    /\ UNCHANGED thr_fixed

DbSizeChecked(d) ==
    /\ last_sent' = d.last_sent
    /\ last_db_size_check_ts' = d.last_check
    /\ IF d.exc # ""
       THEN engine' = "Crashed" /\ subscribed' = FALSE /\ pc' = AtSweep("raised")
       ELSE engine' = engine /\ subscribed' = subscribed /\ pc' = AtSweep("info_mail")

\* self.check_db_size()
sw_db_size(file) ==
    /\ pc.sweep = "db_size"
    /\ DbSizeChecked(check_db_size([last_sent |-> last_sent, sends |-> <<>>,
                                    bve |-> bad_value_events],
                                   msg_cfg, now, last_db_size_check_ts, file))
    /\ UNCHANGED <<last_message_time, rx_stats, bad_value_events, last_info_mail_ts,
                   db_rows, n_msgs, tmp, acct>>
    /\ UNCHANGED thr_fixed

\* maybe_send_info_mail: the test of the repeat interval, the body built from
\* rx_stats, and sent = self.msg_sender.send(...)
sw_info_send ==
    /\ pc.sweep = "info_mail"
    /\ IF last_info_mail_ts # 0 /\ (now - last_info_mail_ts) < max_repeat(msg_cfg)
       THEN /\ pc' = AtSweep("idle")
            /\ tmp' = [tmp EXCEPT !.sweep = <<>>]
            /\ last_sent' = last_sent
       ELSE /\ pc' = AtSweep("info_mark")
            /\ tmp' = [tmp EXCEPT !.sweep.sent =
                        send(last_sent, msg_cfg, now, "INFO_PERIODIC",
                             "[INFO] MQTT Logger gestartet", msg_cfg.triggers["info"],
                             MaxBody, {MaxBody}, 0).sent]
            /\ last_sent' = send(last_sent, msg_cfg, now, "INFO_PERIODIC",
                                 "[INFO] MQTT Logger gestartet", msg_cfg.triggers["info"],
                                 MaxBody, {MaxBody}, 0).last_sent
    /\ UNCHANGED <<engine, subscribed, last_message_time, rx_stats, bad_value_events,
                   last_info_mail_ts, last_db_size_check_ts, db_rows, n_msgs, acct>>
    /\ UNCHANGED thr_fixed

\* maybe_send_info_mail: if sent: the new reference point of the statistics
sw_info_mark ==
    /\ pc.sweep = "info_mark"
    /\ IF tmp.sweep.sent
       THEN /\ last_info_mail_ts' = now
            /\ rx_stats' = [sid \in DOMAIN rx_stats |->
                    IF sid \in {Tables[tk].sensor_id : tk \in active_tables}
                    THEN [rx_stats[sid] EXCEPT !.last_info_count = rx_stats[sid].count_total,
                                               !.last_info_ts = now]
                    ELSE rx_stats[sid]]
       ELSE UNCHANGED <<last_info_mail_ts, rx_stats>>
    /\ pc' = AtSweep("idle")
    /\ tmp' = [tmp EXCEPT !.sweep = <<>>]
    /\ UNCHANGED <<engine, subscribed, last_sent, last_message_time, bad_value_events,
                   last_db_size_check_ts, db_rows, n_msgs, acct>>
    /\ UNCHANGED thr_fixed

\* the configuration of the logger whose threads are looked at
ThreadConfigs ==
    { SweepConfig(MsgConfig(MaxRepeatHours, TRUE, FALSE, FALSE,
                            AllTriggers({"stdout", "logfile"})),
                  30, 1, 1, 2, MaxRepeatHours + 1) }

\* a database whose only complete table is measurements_th
ThreadSchemas ==
    { [tk \in AllTableKeys |-> IF tk = "measurements_th" THEN FullSchema[tk] ELSE {}] }

\* time.sleep(60): the clock of the model moves while the sweep thread sleeps
sw_sleep == pc.sweep = "idle" /\ Tick

InitThreads == SanIdle /\ InsIdle /\ SndInit(ThreadConfigs) /\ EngInit

NextThreads ==
    \/ \E schema \in ThreadSchemas : Start(schema, TRUE, TRUE)
    \/ connect_once
    \/ \E tk \in AllTableKeys, hits \in 0..MaxHits : cb_insert(tk, hits)
    \/ cb_last_message_time
    \/ cb_rx_stats
    \/ cb_bad_value_events
    \/ sw_missing_data
    \/ sw_bad_read
    \/ sw_bad_send
    \/ sw_bad_reset
    \/ \E file \in DbFiles : sw_db_size(file)
    \/ sw_info_send
    \/ sw_info_mark
    \/ sw_sleep

SpecThreads == InitThreads /\ [][NextThreads]_vars

-----------------------------------------------------------------------------
(* Claims about values in array form *)

\* the raw value is [sentinel, previous]: the string key of its first element
\* is a key of invalid_map whose replacement is null
ArraySentinel ==
    /\ san_out # {}
    /\ san_raw.t = "list"
    /\ Len(san_raw.v) > 0
    /\ as_str_key(san_raw.v[1]) \in DOMAIN san_spec.invalid_map
    /\ san_spec.invalid_map[as_str_key(san_raw.v[1])] = PyNone

\* C25: a field delivered as [sentinel, previous] whose sentinel is mapped to
\* null by invalid_map is stored as null, exactly like the scalar sentinel.
C25_ArraySentinelIsNull == ArraySentinel => TheOne(san_out) = PyNone

-----------------------------------------------------------------------------
(* Claims about the preview lengths *)

\* PAYLOAD_PREVIEW_CHARS of the channel's block of the configuration
payload_preview_chars(cfg, channel) ==
    CASE channel = "stdout" -> cfg.stdout_preview
      [] channel = "logfile" -> cfg.logfile_preview
      [] channel = "ntfy" -> cfg.ntfy_preview
      [] OTHER -> cfg.mail_preview

\* C26: the body a dispatched send emits on a channel is never longer than the
\* preview length configured for that channel, whatever the length of the body.
C26_WithinPreview ==
    \A e \in last_call.emits : e.len <= payload_preview_chars(msg_cfg, e.channel)

-----------------------------------------------------------------------------
(* Claims about faults inside the sweep *)

\* C28: no fault raised inside a step of the periodic sweep ends the sweep loop
\* or stops the client: after every sweep the engine is still Active and the
\* subscription is what it was; a missing storage file counts as size 0.
C28_SweepFaultsContained ==
    [][IsSweep => (engine' = "Active" /\ subscribed' = subscribed /\ obs'.exc = "")]_vars

-----------------------------------------------------------------------------
(* Claims about sensors that were never heard of *)

\* the sensors of active tables none of whose messages was stored since start
NeverStored == {Tables[tk].sensor_id : tk \in {k \in active_tables : db_rows[k] = <<>>}}

C29_SweepStep ==
    IsSweep => \A sid \in NeverStored : EntriesOf(obs'.sends, MissingDataKey(sid)) = {}

C29_NoThrottleEntry ==
    \A sid \in NeverStored :
        /\ sid \notin DOMAIN last_message_time
        /\ MissingDataKey(sid) \notin DOMAIN last_sent

\* C29: a sensor of an active table without any stored message since the start
\* never triggers a missing-data notification: no sweep hands one to the
\* sender for it and the throttle map holds no missing-data key of it.
C29_NeverHeardIsSilent == []C29_NoThrottleEntry /\ [][C29_SweepStep]_vars

\* a sweep more than the window after the start that reported the silence of
\* one sensor while the other active sensor has not stored a message yet
C29_Witness ==
    /\ obs.op = "sweep"
    /\ engine = "Active"
    /\ (now - 1) * SecondsPerTick > window_s(msg_cfg)
    /\ NeverStored # {}
    /\ \E i \in 1..Len(obs.sends) :
            /\ obs.sends[i].sent
            /\ \E sid \in ActiveSids \ NeverStored : obs.sends[i].key = MissingDataKey(sid)

-----------------------------------------------------------------------------
(* The logger with its messages and its sweeps, and the statistics it keeps *)

StatsConfigs ==
    { SweepConfig(MsgConfig(MaxRepeatHours, TRUE, FALSE, FALSE,
                            AllTriggers({"stdout", "logfile"})),
                  30, 1, 1, 2, MaxRepeatHours + 1) }

StatsScripts == { Script(0, "ok"), Script(MaxAttempts, "ok"), Script(1, "db_error") }

InitStats == SanIdle /\ InsIdle /\ SndInit(StatsConfigs) /\ EngInit

NextStats ==
    \/ \E schema \in SweepSchemas : Start(schema, TRUE, TRUE)
    \/ connect_once
    \/ \E msg \in Messages, script \in StatsScripts : on_message(msg, script)
    \/ \E file \in DbFiles : Sweep(file)
    \/ Tick

SpecStats == InitStats /\ [][NextStats]_vars

\* the messages of the table's sensor whose insert succeeded
StoredCount(tk) == Len(db_rows[tk])

StatsOfTable(tk) == rx_stats[Tables[tk].sensor_id]

StatsAreSound(tk) ==
    /\ StatsOfTable(tk).count_total >= 1
    /\ StatsOfTable(tk).first_ts <= StatsOfTable(tk).last_ts
    /\ StatsOfTable(tk).last_ts = last_message_time[Tables[tk].sensor_id]
    /\ StatsOfTable(tk).last_info_count <= StatsOfTable(tk).count_total
    /\ StatsOfTable(tk).count_total = StoredCount(tk)

-----------------------------------------------------------------------------
(* Claims about the two threads *)

\* the sweep thread has read a shared entry and has not yet written it back:
\* the counter of check_bad_values, the statistics of maybe_send_info_mail
SweepInUpdate == pc.sweep \in {"bad_send", "bad_reset", "info_mark"}

\* a statement of the callback thread that reads or writes one of the maps
CallbackAccess ==
    /\ pc.callback \in {"last_message_time", "rx_stats", "bad_value_events"}
    /\ pc'.callback # pc.callback

\* C24: the accesses of the message callback and of the sweep to the runtime
\* state, the bad-value accumulator and the throttle map exclude each other:
\* between a read of the sweep and the write that follows from it the callback
\* touches none of the maps.
C24_NoInterleavedAccess == [][SweepInUpdate => ~CallbackAccess]_vars

Quiescent == pc.callback = "idle" /\ pc.sweep = "idle"

=============================================================================
